---- MODULE Spec2Model ----
(***************************************************************************)
(* Attempt lifecycle of the quiz backend: startQuiz, submitQuiz and        *)
(* autoSaveAnswers of controllers/quizzes.controller.js, run as concurrent *)
(* request handlers against the QuizAttempt and Quiz collections.          *)
(*                                                                         *)
(* Times are in milliseconds of the server clock.  Scores are kept in      *)
(* units of 1/ScoreUnit mark so that the partial credit of mcq_multi is    *)
(* exact.                                                                  *)
(*                                                                         *)
(* Storage.  startQuiz and submitQuiz run inside a MongoDB transaction:    *)
(* every read of the handler sees the snapshot taken when the transaction  *)
(* starts, and a write to a document that another writer changed after     *)
(* that snapshot aborts the transaction with a write conflict, which the   *)
(* handler's catch block turns into next(error).  An insert conflicts with *)
(* nothing.  autoSaveAnswers uses no transaction: it loads the document,   *)
(* and its save() sends only the modified paths; mongoose adds the         *)
(* document version to the update filter only when the save replaces an    *)
(* array, and then a save that finds the version changed throws.           *)
(***************************************************************************)
EXTENDS Integers, Sequences, FiniteSets, TLC

VARIABLES
    now,        \* server clock (ms)
    quiz,       \* the Quiz document
    enrolled,   \* users with a QuizEnrollment row for the quiz
    activeQs,   \* ids of the questions whose isActive flag is set
    attempts,   \* QuizAttempt collection: sequence of rows, _id = index
    calls,      \* the request handlers in flight, one per worker
    gradings,   \* history: per attempt row, how many submits wrote grades
    manualGrades, \* history: per attempt row, the score gradeAnswer last
                \* accepted for each question (NotGraded when none)
    auditLogs,  \* the AuditLog collection, in insertion order
    env,        \* the run's environment: handlers, clock instants, request inputs
    timeUtil    \* the last call of the timing utility: arguments and result

vars == <<now, quiz, enrolled, activeQs, attempts, calls, gradings, manualGrades, auditLogs, env, timeUtil>>

-----------------------------------------------------------------------------
(* Bounds and input sets *)

MaxAttempts == 3
MaxResumes == 2
\* audit events logged in one run
MaxAuditLogs == 2

Workers == {"w1", "w2"}
Users == {"u1"}
IPs == {"10.0.0.1", "10.0.0.2"}
UserAgents == {"ua1"}
Fingerprints == {"fp1"}
TabSwitchInputs == {0, 6}

\* the instants at which the server clock can be sampled: the quiz window
\* is [1000, 130000] and the quiz lasts one minute
Instants == {0, 1000, 1500, 61000, 91000, 91500, 92000, 121000, 121500,
             130000, 131000}

NoTime == 0 - 1
\* no score accepted yet for the question
NotGraded == 0 - 1

\* no call of the utility has been made
NoTimeCall ==
    [op |-> "none", at |-> 0, startTime |-> 0, durationSeconds |-> 0,
     gracePeriodSeconds |-> 0, remaining |-> NoTime, expired |-> FALSE]

-----------------------------------------------------------------------------
(* Program constants *)

ResumeGraceMs == 60000
SubmitGraceSeconds == 30
DefaultMaxTabSwitches == 5
\* config.antiCheat.maxTabSwitches
ConfigMaxTabSwitches == 5
HookTabSwitchLimit == 10
ScoreUnit == 6

-----------------------------------------------------------------------------
(* Question bank *)

QIds == {"q1", "q2", "q3", "q4"}
\* the two questions most quizzes of the runs are made of
CoreQs == {"q1", "q2"}

Questions ==
    [q \in QIds |->
        IF q = "q1"
        THEN [type |-> "mcq_single", marks |-> 2, negativeMarks |-> 3,
              choices |-> <<[id |-> "a", isCorrect |-> TRUE],
                            [id |-> "b", isCorrect |-> FALSE]>>,
              correct |-> "a"]
        ELSE IF q = "q2"
        THEN [type |-> "short_answer", marks |-> 3, negativeMarks |-> 0,
              choices |-> <<>>,
              correct |-> ""]
        ELSE IF q = "q3"
        THEN [type |-> "mcq_multi", marks |-> 3, negativeMarks |-> 2,
              choices |-> <<[id |-> "a", isCorrect |-> TRUE],
                            [id |-> "b", isCorrect |-> TRUE],
                            [id |-> "c", isCorrect |-> TRUE],
                            [id |-> "d", isCorrect |-> FALSE]>>,
              correct |-> ""]
        ELSE [type |-> "true_false", marks |-> 1, negativeMarks |-> 1,
              choices |-> <<>>,
              correct |-> "true"]]

\* an answer of a request body: a string or an array of strings
StrAns(q, s) == [questionId |-> q, isArray |-> FALSE, str |-> s, arr |-> <<>>]
ArrAns(q, a) == [questionId |-> q, isArray |-> TRUE, str |-> "", arr |-> a]

\* answers to the mcq_multi question q3: the exact set in two orders, subsets,
\* a wrong choice, a choice named twice (alone, and after the exact set), a
\* string and an empty array
MultiAnswerLists ==
    { <<ArrAns("q3", <<"a", "b", "c">>)>>,
      <<ArrAns("q3", <<"c", "a", "b">>)>>,
      <<ArrAns("q3", <<"a", "b">>)>>,
      <<ArrAns("q3", <<"a", "b", "d">>)>>,
      <<ArrAns("q3", <<"d">>)>>,
      <<ArrAns("q3", <<"a", "a">>)>>,
      <<ArrAns("q3", <<"a", "b", "c", "a">>)>>,
      <<ArrAns("q3", <<>>)>>,
      <<StrAns("q3", "a")>> }

\* answers to the true_false question q4, whose correct value is "true"
TrueFalseAnswerLists ==
    { <<>>,
      <<StrAns("q4", "")>>,
      <<StrAns("q4", "true")>>,
      <<StrAns("q4", "TRUE")>>,
      <<StrAns("q4", "false")>> }

AnswerLists ==
    { <<>>,
      <<StrAns("q1", "a")>>,
      <<StrAns("q1", "b")>>,
      <<StrAns("q1", "a"), StrAns("q2", "essay")>> }

-----------------------------------------------------------------------------
(* Helpers *)

\* Math.min written where Math.max is meant
Max_AsMin(a, b) == IF a <= b THEN a ELSE b

Max(a, b) == IF a >= b THEN a ELSE b
Min(a, b) == IF a <= b THEN a ELSE b

Range(s) == {s[i] : i \in DOMAIN s}

\* all orders shuffleArray can return for arr
shuffleArray(arr) ==
    {p \in [DOMAIN arr -> Range(arr)] :
        \A x \in Range(arr) :
            Cardinality({i \in DOMAIN arr : p[i] = x}) =
            Cardinality({i \in DOMAIN arr : arr[i] = x})}

RECURSIVE SeqSum(_)
SeqSum(s) == IF s = <<>> THEN 0 ELSE Head(s) + SeqSum(Tail(s))

\* the subsequence of s whose elements satisfy membership in keep
RECURSIVE FilterIn(_, _)
FilterIn(s, keep) ==
    IF s = <<>> THEN <<>>
    ELSE IF Head(s) \in keep THEN <<Head(s)>> \o FilterIn(Tail(s), keep)
         ELSE FilterIn(Tail(s), keep)

\* every sequence that lists the elements of set S once
SeqsOf(S) == {p \in [1..Cardinality(S) -> S] : Range(p) = S}

CompletedStatuses == {"submitted", "auto_graded", "timeout", "manually_graded"}
StatsStatuses == {"submitted", "auto_graded", "manually_graded"}

\* a response, with the answers of the request it answers when it accepted any
NoResponse == [kind |-> "none", status |-> "", attemptId |-> 0, body |-> <<>>,
               served |-> <<>>]
Response(k, st, id) == [kind |-> k, status |-> st, attemptId |-> id, body |-> <<>>,
                        served |-> <<>>]

IdleCall == [pc |-> "idle", user |-> "", aid |-> 0, t |-> 0, snap |-> <<>>,
             wrote |-> {}, bumped |-> {}, quizWrote |-> FALSE,
             resp |-> NoResponse]

-----------------------------------------------------------------------------
(* Storage layer *)

\* a committed write to attempt row id: every other handler that holds a
\* snapshot of the row learns that the row changed (wrote) and, when the
\* save changed an array, that its version key was incremented (bumped)
NoteWrite(cs, writer, id, bump) ==
    [w \in Workers |->
        IF w # writer /\ cs[w].pc # "idle" /\ id \in DOMAIN cs[w].snap
        THEN [cs[w] EXCEPT !.wrote = @ \cup {id},
                           !.bumped = IF bump THEN @ \cup {id} ELSE @]
        ELSE cs[w]]

NoteQuizWrite(cs, writer) ==
    [w \in Workers |->
        IF w # writer /\ cs[w].pc = "submit"
        THEN [cs[w] EXCEPT !.quizWrote = TRUE]
        ELSE cs[w]]

\* save() of a document loaded outside a transaction: the paths the handler
\* modified are set on the stored row, the others keep their stored value
\* save() writing the whole loaded document over the stored one
SaveModified_Whole(cur, loaded, doc) == doc

SaveModified(cur, loaded, doc) ==
    [f \in DOMAIN cur |-> IF doc[f] # loaded[f] THEN doc[f] ELSE cur[f]]

\* the handler returns: its response is recorded and its snapshot dropped
Finish(cs, w, r) == [cs EXCEPT ![w] = [IdleCall EXCEPT !.resp = r]]

-----------------------------------------------------------------------------------------------------------------------------------------------------
(* Initial state: one quiz as its trainer configured it, no attempts.  A   *)
(* run is one scenario: a quiz configuration together with the handlers,   *)
(* clock instants and client addresses of its environment.                 *)

QuizModes == {"fixed_list", "pool_random", "none"}

Ops == {"start", "submit", "autosave"}
One == [w \in Workers |-> IF w = "w1" THEN Ops ELSE {}]

Scenario(ops, inst, ips, answers, tabs, pub, enr, mode, active, allowed, shuffle) ==
    [ops |-> ops, instants |-> inst, ips |-> ips, answerLists |-> answers,
     tabSwitches |-> tabs, isPublished |-> pub, enrolled |-> enr,
     questionMode |-> mode, active |-> active, attemptsAllowed |-> allowed,
     shuffle |-> shuffle, maxTabSwitches |-> 5, served |-> <<>>, deleted |-> {},
     timeSpent |-> {0}, questionIds |-> <<"q1", "q2">>]

\* the scenario s for a quiz whose trainer set antiCheatSettings.maxTabSwitches
WithMaxTabSwitches(s, n) == [s EXCEPT !.maxTabSwitches = n]

\* timeSpentSeconds of a submit body: absent (0) or a number the client chose
TimeSpentInputs == {0, 5}

\* the scenario s with clients that send the timeSpentSeconds values given
WithTimeSpent(s, values) == [s EXCEPT !.timeSpent = values]

\* the scenario s for a quiz whose fixed list names the questions given
WithQuestionIds(s, ids) == [s EXCEPT !.questionIds = ids]

\* the scenario s started with a legacy attempt that was served the
\* questions listed, of which those in deleted have since been deleted
WithLegacyAttempt(s, served, deleted) ==
    [s EXCEPT !.served = served, !.deleted = deleted]

Scenarios ==
    { \* two handlers racing on the attempts of one user
      Scenario([w \in Workers |-> IF w = "w1" THEN {"start", "submit"} ELSE {"start"}],
               {1000}, {"10.0.0.1"}, {<<>>}, {0},
               TRUE, Users, "fixed_list", {"q1"}, 1, FALSE),
      \* two handlers racing on one attempt
      Scenario([w \in Workers |-> IF w = "w1" THEN {"start", "submit"}
                                  ELSE {"submit", "autosave"}],
               {1000, 122000}, {"10.0.0.1"}, {<<>>, <<StrAns("q1", "b")>>}, TabSwitchInputs,
               TRUE, Users, "fixed_list", {"q1"}, 1, FALSE),
      \* one handler, every instant around the deadlines and the window
      Scenario(One, Instants, {"10.0.0.1"},
               {<<StrAns("q1", "a")>>}, {0},
               TRUE, Users, "fixed_list", CoreQs, 1, FALSE),
      \* a second attempt allowed
      Scenario(One, {1000, 130000, 131000}, {"10.0.0.1"},
               {<<>>}, {0},
               TRUE, Users, "fixed_list", {"q1"}, 2, FALSE),
      \* grading and anti-cheat flags on shuffled snapshots
      Scenario(One, {1000, 61000}, IPs,
               AnswerLists, TabSwitchInputs,
               TRUE, Users, "fixed_list", CoreQs, 1, TRUE),
      Scenario(One, {1000, 61000}, {"10.0.0.1"},
               AnswerLists, {0},
               TRUE, Users, "fixed_list", {"q1"}, 1, TRUE),
      Scenario(One, {1000, 61000}, {"10.0.0.1"},
               AnswerLists, {0},
               TRUE, Users, "pool_random", CoreQs, 1, TRUE),
      \* one client that also fetches its attempt
      Scenario([w \in Workers |-> IF w = "w1" THEN {"start", "autosave", "fetch"}
                                  ELSE {}],
               {1000, 61000, 61500, 122000, 131000}, {"10.0.0.1"},
               {<<StrAns("q1", "a")>>}, {0},
               TRUE, Users, "fixed_list", {"q1"}, 1, FALSE),
      \* a fetch racing a submit
      Scenario([w \in Workers |-> IF w = "w1" THEN {"start", "submit"}
                                  ELSE {"fetch"}],
               {1000, 61500}, {"10.0.0.1"}, {<<>>}, {0},
               TRUE, Users, "fixed_list", {"q1"}, 1, FALSE),
      \* autosaves that report more tab switches than the save hook tolerates
      Scenario([w \in Workers |-> IF w = "w1" THEN {"start", "autosave", "submit"}
                                  ELSE {}],
               {1000}, {"10.0.0.1"},
               {<<>>, <<StrAns("q1", "a")>>}, {0, HookTabSwitchLimit + 1},
               TRUE, Users, "fixed_list", {"q1"}, 1, FALSE),
      \* autosaves that repeat a question or bring another one
      Scenario([w \in Workers |-> IF w = "w1" THEN {"start", "autosave"}
                                  ELSE {"autosave"}],
               {1000}, {"10.0.0.1"},
               {<<StrAns("q1", "a"), StrAns("q1", "b")>>,
                <<StrAns("q2", "essay")>>,
                <<StrAns("q2", "note"), StrAns("q1", "a")>>}, {0},
               TRUE, Users, "fixed_list", CoreQs, 1, FALSE),
      \* tab switches logged while an autosave reports its own count
      Scenario([w \in Workers |-> IF w = "w1" THEN {"start", "autosave"}
                                  ELSE {"audit"}],
               {1000}, {"10.0.0.1"}, {<<>>}, TabSwitchInputs,
               TRUE, Users, "fixed_list", CoreQs, 1, FALSE),
      \* a grader at work while the student starts and submits
      Scenario([w \in Workers |-> IF w = "w1" THEN {"start", "submit"}
                                  ELSE {"grade", "finalize"}],
               {1000}, {"10.0.0.1"},
               {<<StrAns("q1", "a")>>, <<StrAns("q1", "b")>>}, {0},
               TRUE, Users, "fixed_list", CoreQs, 1, FALSE),
      \* an attempt submitted to the attempts controller, then graded by hand
      Scenario([w \in Workers |-> IF w = "w1"
                                  THEN {"start", "autosave", "submitAttempt"}
                                  ELSE {"finalize"}],
               {1000, 8000}, {"10.0.0.1"},
               {<<StrAns("q2", "essay"), StrAns("q1", "a")>>}, {0},
               TRUE, Users, "fixed_list", CoreQs, 1, FALSE),
      \* a quiz drawing the mcq_multi question from its pool
      Scenario([w \in Workers |-> IF w = "w1" THEN {"start", "submit"} ELSE {}],
               {1000}, {"10.0.0.1"}, MultiAnswerLists, {0},
               TRUE, Users, "pool_random", {"q3"}, 1, FALSE),
      \* a quiz drawing the true_false question from its pool
      Scenario([w \in Workers |-> IF w = "w1" THEN {"start", "submit"} ELSE {}],
               {1000}, {"10.0.0.1"}, TrueFalseAnswerLists, {0},
               TRUE, Users, "pool_random", {"q4"}, 1, FALSE),
      \* quizzes with a tab-switch threshold of their own
      WithMaxTabSwitches(
        Scenario([w \in Workers |-> IF w = "w1" THEN {"start", "submit"} ELSE {}],
                 {1000}, {"10.0.0.1"}, {<<>>}, {0, 3, 6},
                 TRUE, Users, "fixed_list", {"q1"}, 1, FALSE), 0),
      WithMaxTabSwitches(
        Scenario([w \in Workers |-> IF w = "w1" THEN {"start", "submit"} ELSE {}],
                 {1000}, {"10.0.0.1"}, {<<>>}, {0, 3, 6},
                 TRUE, Users, "fixed_list", {"q1"}, 1, FALSE), 2),
      \* a legacy attempt without snapshot is resumed, then submitted
      WithLegacyAttempt(
        Scenario([w \in Workers |-> IF w = "w1" THEN {"start", "submit"} ELSE {}],
                 {1000, 2000}, {"10.0.0.1"}, {<<StrAns("q1", "a")>>}, {0},
                 TRUE, Users, "fixed_list", CoreQs, 1, FALSE),
        <<"q2", "q3", "q1">>, {"q3"}),
      WithLegacyAttempt(
        Scenario([w \in Workers |-> IF w = "w1" THEN {"start"} ELSE {}],
                 {1000, 2000}, {"10.0.0.1"}, {<<>>}, {0},
                 TRUE, Users, "fixed_list", CoreQs, 1, TRUE),
        <<"q2", "q3", "q1">>, {}),
      \* clients that report their own time spent
      WithTimeSpent(
        Scenario([w \in Workers |-> IF w = "w1" THEN {"start", "submit"} ELSE {}],
                 {1000, 31000}, {"10.0.0.1"}, {<<StrAns("q1", "a")>>}, {0},
                 TRUE, Users, "fixed_list", {"q1"}, 1, FALSE),
        TimeSpentInputs),
      \* a fetch racing the attempts controller's submit and the finalize
      Scenario([w \in Workers |-> IF w = "w1"
                                  THEN {"start", "autosave", "submitAttempt", "finalize"}
                                  ELSE {"fetch"}],
               {1000, 62000}, {"10.0.0.1"},
               {<<StrAns("q2", "essay"), StrAns("q1", "a")>>}, {0},
               TRUE, Users, "fixed_list", CoreQs, 1, FALSE),
      \* a student who opens the attempt detail route
      Scenario([w \in Workers |-> IF w = "w1" THEN {"start", "submit"} ELSE {"detail"}],
               {1000}, {"10.0.0.1"}, {<<StrAns("q1", "a")>>}, {0},
               TRUE, Users, "fixed_list", CoreQs, 1, TRUE),
      \* answers saved through the attempts controller, before and after the
      \* time limit
      Scenario([w \in Workers |-> IF w = "w1" THEN {"start", "saveAnswers", "submit"}
                                  ELSE {}],
               {1000, 62000}, {"10.0.0.1"}, {<<StrAns("q1", "a")>>}, {0},
               TRUE, Users, "fixed_list", {"q1"}, 1, FALSE),
      \* a fixed list of the short_answer and the mcq_multi question
      WithQuestionIds(
        Scenario([w \in Workers |-> IF w = "w1" THEN {"start", "submit"} ELSE {}],
                 {1000}, {"10.0.0.1"}, MultiAnswerLists, {0},
                 TRUE, Users, "fixed_list", {"q2", "q3"}, 1, FALSE),
        <<"q2", "q3">>),
      \* quizzes no attempt can be built for
      Scenario(One, {0, 1000}, {"10.0.0.1"}, {<<>>}, {0},
               FALSE, Users, "fixed_list", CoreQs, 1, FALSE),
      Scenario(One, {0, 1000}, {"10.0.0.1"}, {<<>>}, {0},
               TRUE, {}, "fixed_list", CoreQs, 1, FALSE),
      Scenario(One, {0, 1000}, {"10.0.0.1"}, {<<>>}, {0},
               TRUE, Users, "fixed_list", {}, 1, FALSE),
      Scenario(One, {0, 1000}, {"10.0.0.1"}, {<<>>}, {0},
               TRUE, Users, "pool_random", {}, 1, FALSE),
      Scenario(One, {1000, 61000}, {"10.0.0.1"}, {<<>>}, {0},
               TRUE, Users, "none", CoreQs, 1, FALSE) }

InitQuiz(s) ==
    [isPublished |-> s.isPublished,
     questionMode |-> s.questionMode,
     questionIds |-> IF s.questionMode = "fixed_list" THEN s.questionIds ELSE <<>>,
     poolCount |-> 1,
     durationMinutes |-> 1,
     passingMarks |-> 2,
     attemptsAllowed |-> s.attemptsAllowed,
     startTime |-> 1000,
     endTime |-> 130000,
     shuffleQuestions |-> s.shuffle,
     shuffleChoices |-> s.shuffle,
     showCorrectAnswers |-> FALSE,
     antiCheatSettings |-> [maxTabSwitches |-> s.maxTabSwitches,
                            trackIPAddress |-> TRUE,
                            allowIPChange |-> FALSE],
     totalAttempts |-> 0,
     averageScore |-> [sum |-> 0, n |-> 0]]

\* the server clock advances
Tick ==
    /\ \E t \in env.instants : t > now /\ now' = t
    /\ UNCHANGED <<quiz, enrolled, activeQs, attempts, calls, gradings, manualGrades, auditLogs, env, timeUtil>>

-----------------------------------------------------------------------------
(* QuizAttempt schema *)

Units(marks) == marks * ScoreUnit

NoPercentage == [num |-> 0, den |-> 0]
Percentage(totalScore, maxScore) ==
    [num |-> totalScore * 100, den |-> Units(maxScore)]

FlagReason(r, sev) == [reason |-> r, severity |-> sev]

\* pre('save') middleware of the attempt schema
PreSave(at) ==
    [at EXCEPT
        !.percentage = IF at.maxScore > 0
                       THEN Percentage(at.totalScore, at.maxScore) ELSE @,
        !.isFlagged = IF at.tabSwitches > HookTabSwitchLimit THEN TRUE ELSE @]

\* a lookup that finds no active attempt
InProgressOf_None(tbl, u) == {}

\* findOne({quiz, user, status: "in_progress"}): the rows it can return
InProgressOf(tbl, u) ==
    {i \in DOMAIN tbl : tbl[i].user = u /\ tbl[i].status = "in_progress"}

CompletedCount(tbl, u) ==
    Cardinality({i \in DOMAIN tbl :
                    tbl[i].user = u /\ tbl[i].status \in CompletedStatuses})

-----------------------------------------------------------------------------
(* Question selection of startQuiz *)

BankOrder == <<"q1", "q2", "q3", "q4">>

ChoiceIds(q) == [i \in DOMAIN Questions[q].choices |-> Questions[q].choices[i].id]

\* a stored snapshot entry as toObject() puts it in a response: the question
\* reference and the choices as stored (id and text; the text is left out)
StoredView(sq) ==
    [question |-> [id |-> sq.question],
     choices |-> [i \in DOMAIN sq.choices |-> [id |-> sq.choices[i]]]]

\* a snapshot entry after populate("selectedQuestions.question") without a
\* select: the reference is replaced by the whole Question document
PopulatedView(sq) ==
    [question |-> [id |-> sq.question,
                   correct |-> Questions[sq.question].correct,
                   choices |-> Questions[sq.question].choices],
     choices |-> [i \in DOMAIN sq.choices |-> [id |-> sq.choices[i]]]]

\* the response r carrying the question list views
WithServed(r, views) == [r EXCEPT !.served = views]

\* the snapshots one question can be served as: choices reduced to their
\* ids (text omitted, isCorrect stripped), shuffled when the quiz asks for it
SnapshotsOf(q, shuffleChoices, marks) ==
    {[question |-> q, type |-> Questions[q].type, marks |-> marks,
      choices |-> c] :
        c \in IF shuffleChoices THEN shuffleArray(ChoiceIds(q))
              ELSE {ChoiceIds(q)}}

SnapshotLists(order, shuffleChoices) ==
    IF order = <<>> THEN {<<>>}
    ELSE {s \in [DOMAIN order ->
                    UNION {SnapshotsOf(order[i], shuffleChoices,
                                       Questions[order[i]].marks) :
                              i \in DOMAIN order}] :
            \A i \in DOMAIN order : s[i].question = order[i]}

\* the question orders startQuiz can select, or a rejection
SelectionError(q, active) ==
    CASE q.questionMode = "fixed_list" /\ q.questionIds = <<>>
            -> "no_questions_configured"
      [] q.questionMode = "fixed_list" /\ Range(q.questionIds) \cap active = {}
            -> "no_active_questions"
      [] q.questionMode = "pool_random" /\ active = {}
            -> "no_questions_in_pool"
      [] OTHER -> "ok"

SelectedOrders(q, active) ==
    LET fixed == FilterIn(BankOrder, Range(q.questionIds) \cap active)
        pool == active
        count == Min(q.poolCount, Cardinality(pool))
        drawn == UNION {SeqsOf(S) : S \in {T \in SUBSET pool : Cardinality(T) = count}}
        base == CASE q.questionMode = "fixed_list" -> {fixed}
                  [] q.questionMode = "pool_random" -> drawn
                  [] OTHER -> {<<>>}
    IN  IF q.shuffleQuestions
        THEN UNION {shuffleArray(o) : o \in base}
        ELSE base

NewAttempt(u, number, selected, t, ip, ua, fp) ==
    PreSave(
    [user |-> u,
     attemptNumber |-> number,
     status |-> "in_progress",
     selectedQuestions |-> selected,
     questionsServed |-> [i \in DOMAIN selected |->
                            [question |-> selected[i].question,
                             orderIndex |-> i - 1,
                             marks |-> selected[i].marks]],
     startTime |-> t,
     endTime |-> NoTime,
     timeSpentSeconds |-> NoTime,
     rawAnswers |-> <<>>,
     autoGradeResult |-> <<>>,
     totalScore |-> 0,
     maxScore |-> SeqSum([i \in DOMAIN selected |-> selected[i].marks]),
     percentage |-> NoPercentage,
     passed |-> FALSE,
     correctCount |-> 0,
     wrongCount |-> 0,
     partialCount |-> 0,
     unansweredCount |-> 0,
     tabSwitches |-> 0,
     ipAtStart |-> ip,
     ipAtEnd |-> "",
     userAgentStart |-> ua,
     userAgentEnd |-> "",
     clientFingerprint |-> fp,
     resumeCount |-> 0,
     resumeIPs |-> <<ip>>,
     lastResumeTime |-> NoTime,
     isFlagged |-> FALSE,
     flaggedReasons |-> <<>>,
     isAutoSubmit |-> FALSE])

\* an in_progress attempt stored before selectedQuestions existed: it has
\* questionsServed (in the order given) and no snapshot
LegacyAttempt(u, served) ==
    [NewAttempt(u, 1, CHOOSE sel \in SnapshotLists(served, FALSE) : TRUE,
                0, "10.0.0.1", "ua1", "fp1")
        EXCEPT !.selectedQuestions = <<>>]

\* the attempts collection the behaviour starts from
InitAttempts(s) ==
    IF s.served = <<>> THEN <<>> ELSE <<LegacyAttempt("u1", s.served)>>

Init ==
    \E s \in Scenarios :
        /\ env = [ops |-> s.ops, instants |-> s.instants, ips |-> s.ips,
                  answerLists |-> s.answerLists, tabSwitches |-> s.tabSwitches,
                  deleted |-> s.deleted, timeSpent |-> s.timeSpent]
        /\ now = 0
        /\ quiz = InitQuiz(s)
        /\ enrolled = s.enrolled
        /\ activeQs = s.active
        /\ attempts = InitAttempts(s)
        /\ calls = [w \in Workers |-> IdleCall]
        /\ gradings = [i \in DOMAIN InitAttempts(s) |-> 0]
        /\ manualGrades = [i \in DOMAIN InitAttempts(s) |->
                                [q \in QIds |-> NotGraded]]
        /\ auditLogs = <<>>
        /\ timeUtil = NoTimeCall

-----------------------------------------------------------------------------
(* startQuiz *)

\* the eligibility checks, in the order the handler makes them
StartEligibility(q, enr, tbl, t, u) ==
    IF ~q.isPublished THEN "quiz_not_published"
    ELSE IF u \notin enr THEN "not_enrolled"
    ELSE IF t < q.startTime THEN "quiz_not_started"
    ELSE IF t > q.endTime THEN "quiz_ended"
    ELSE IF CompletedCount(tbl, u) >= q.attemptsAllowed THEN "max_attempts"
    ELSE "ok"

\* the expiry test without the resume grace
ResumeExpired_NoGrace(at, q, t) ==
    t - at.startTime > q.durationMinutes * 60 * 1000

ResumeExpired(at, q, t) ==
    t - at.startTime > q.durationMinutes * 60 * 1000 + ResumeGraceMs

\* the transaction starts: the handler's reads see this snapshot
StartBegin(w) ==
    /\ calls[w].pc = "idle"
    /\ "start" \in env.ops[w]
    /\ \E u \in Users :
        calls' = [calls EXCEPT ![w] =
                    [IdleCall EXCEPT !.pc = "start", !.user = u, !.t = now,
                                     !.snap = attempts]]
    /\ UNCHANGED <<now, quiz, enrolled, activeQs, attempts, gradings, manualGrades, auditLogs, env, timeUtil>>

\* an eligibility check fails: abortTransaction, 403
StartReject(w) ==
    LET c == calls[w]
        e == StartEligibility(quiz, enrolled, c.snap, c.t, c.user)
    IN  /\ e # "ok"
        /\ calls' = Finish(calls, w, Response(e, "", 0))
        /\ UNCHANGED <<now, quiz, enrolled, activeQs, attempts, gradings, manualGrades, auditLogs, env, timeUtil>>

\* the in_progress attempt found is past its deadline plus the resume grace
StartExpire(w) ==
    LET c == calls[w] IN
    /\ StartEligibility(quiz, enrolled, c.snap, c.t, c.user) = "ok"
    /\ \E a \in InProgressOf(c.snap, c.user) :
        LET at == c.snap[a]
            elapsed == c.t - at.startTime
        IN  /\ ResumeExpired(at, quiz, c.t)
            /\ IF a \in c.wrote
               THEN /\ calls' = Finish(calls, w, Response("error", "", a))
                    /\ UNCHANGED attempts
               ELSE /\ attempts' = [attempts EXCEPT ![a] = PreSave(
                        [at EXCEPT
                            !.status = "timeout",
                            !.endTime = c.t,
                            !.timeSpentSeconds = elapsed \div 1000,
                            !.isFlagged = TRUE,
                            !.flaggedReasons = Append(@,
                                FlagReason("Attempt resumed after time limit expired",
                                           "high"))])]
                    /\ calls' = Finish(NoteWrite(calls, w, a, TRUE), w,
                                       Response("previous_attempt_expired", "timeout", a))
    /\ UNCHANGED <<now, quiz, enrolled, activeQs, gradings, manualGrades, auditLogs, env, timeUtil>>

\* the served questions in the order Question.find returns them
FoundServed_BankOrder(at) ==
    FilterIn(BankOrder,
             {at.questionsServed[i].question : i \in DOMAIN at.questionsServed}
                \ env.deleted)

\* the served questions that Question.find still finds, in questionsServed
\* order: a question that is gone maps to null and is filtered out
FoundServed(at) ==
    FilterIn([i \in DOMAIN at.questionsServed |-> at.questionsServed[i].question],
             QIds \ env.deleted)

\* selectedQuestions rebuilt from questionsServed on every resume
RebuiltSnapshots_Always(at, q) ==
    SnapshotLists(FoundServed(at), q.shuffleChoices)

\* selectedQuestions rebuilt from questionsServed when found empty
RebuiltSnapshots(at, q) ==
    IF at.selectedQuestions # <<>> THEN {at.selectedQuestions}
    ELSE SnapshotLists(FoundServed(at), q.shuffleChoices)

\* resumeIPs with the request's IP pushed unconditionally
ResumeIPs_Push(ips, ip) == Append(ips, ip)

\* resumeIPs after a resume from ip: pushed unless already included
ResumeIPs(ips, ip) == IF ip \notin Range(ips) THEN Append(ips, ip) ELSE ips

\* the in_progress attempt found is resumed
StartResume(w) ==
    LET c == calls[w] IN
    /\ StartEligibility(quiz, enrolled, c.snap, c.t, c.user) = "ok"
    /\ \E a \in InProgressOf(c.snap, c.user), ip \in env.ips :
        LET at == c.snap[a]
            newIP == ip \notin Range(at.resumeIPs)
            rebuilt == at.selectedQuestions = <<>>
        IN  /\ ~ResumeExpired(at, quiz, c.t)
            /\ at.resumeCount < MaxResumes
            /\ IF a \in c.wrote
               THEN /\ calls' = Finish(calls, w, Response("error", "", a))
                    /\ UNCHANGED attempts
               ELSE \E sel \in RebuiltSnapshots(at, quiz) :
                    /\ attempts' = [attempts EXCEPT ![a] = PreSave(
                        [at EXCEPT
                            !.selectedQuestions = sel,
                            !.resumeCount = @ + 1,
                            !.lastResumeTime = c.t,
                            !.resumeIPs = ResumeIPs(@, ip)])]
                    /\ calls' = Finish(NoteWrite(calls, w, a, newIP \/ rebuilt), w,
                                       WithServed(Response("resumed", "in_progress", a),
                                                  [i \in DOMAIN sel |-> StoredView(sel[i])]))
    /\ UNCHANGED <<now, quiz, enrolled, activeQs, gradings, manualGrades, auditLogs, env, timeUtil>>

\* no in_progress attempt in the snapshot: build the question set and
\* insert a new attempt
StartCreate(w) ==
    LET c == calls[w]
        sErr == SelectionError(quiz, activeQs)
    IN
    /\ StartEligibility(quiz, enrolled, c.snap, c.t, c.user) = "ok"
    /\ InProgressOf(c.snap, c.user) = {}
    /\ IF sErr # "ok"
       THEN /\ calls' = Finish(calls, w, Response(sErr, "", 0))
            /\ UNCHANGED <<attempts, gradings, manualGrades>>
       ELSE /\ Len(attempts) < MaxAttempts
            /\ \E order \in SelectedOrders(quiz, activeQs),
                  ip \in env.ips, ua \in UserAgents, fp \in Fingerprints :
               \E sel \in SnapshotLists(order, quiz.shuffleChoices) :
                /\ attempts' = Append(attempts,
                        NewAttempt(c.user, CompletedCount(c.snap, c.user) + 1,
                                   sel, c.t, ip, ua, fp))
                /\ gradings' = Append(gradings, 0)
                /\ manualGrades' = Append(manualGrades, [q \in QIds |-> NotGraded])
                /\ calls' = Finish(calls, w,
                                   WithServed(Response("started", "in_progress",
                                                       Len(attempts) + 1),
                                              [i \in DOMAIN sel |-> StoredView(sel[i])]))
    /\ UNCHANGED <<now, quiz, enrolled, activeQs, auditLogs, env, timeUtil>>

StartCommit(w) ==
    /\ calls[w].pc = "start"
    /\ \/ StartReject(w)
       \/ StartExpire(w)
       \/ StartResume(w)
       \/ StartCreate(w)

-----------------------------------------------------------------------------
(* Grading loop of submitQuiz *)

\* x.toString() of an answer value, as the list of the ids it joins with ","
ToStr(a) == IF a.isArray THEN a.arr ELSE IF a.str = "" THEN <<>> ELSE <<a.str>>

\* the comparison left case-sensitive
ToLower_Identity(s) == s

\* s.toLowerCase() for the strings a true_false answer takes
ToLower(s) ==
    CASE s = "True" -> "true"
      [] s = "TRUE" -> "true"
      [] s = "False" -> "false"
      [] s = "FALSE" -> "false"
      [] OTHER -> s

\* parseFloat of the numeric strings used, in thousandths
ParseFloat(s) ==
    CASE s = "10" -> 10000
      [] s = "10.005" -> 10005
      [] s = "10.01" -> 10010
      [] s = "10.02" -> 10020
      [] OTHER -> 0

\* position of a choice id in the order Array.prototype.sort gives
IdRank(id) ==
    CASE id = "a" -> 1 [] id = "b" -> 2 [] id = "c" -> 3 [] id = "d" -> 4
      [] OTHER -> 5

RECURSIVE Insert(_, _)
Insert(x, sorted) ==
    IF sorted = <<>> THEN <<x>>
    ELSE IF IdRank(x) <= IdRank(Head(sorted)) THEN <<x>> \o sorted
         ELSE <<Head(sorted)>> \o Insert(x, Tail(sorted))

RECURSIVE Sort(_)
Sort(s) == IF s = <<>> THEN <<>> ELSE Insert(Head(s), Sort(Tail(s)))

CorrectChoices(qd) ==
    Sort(LET RECURSIVE pick(_)
             pick(cs) == IF cs = <<>> THEN <<>>
                         ELSE IF Head(cs).isCorrect
                              THEN <<Head(cs).id>> \o pick(Tail(cs))
                              ELSE pick(Tail(cs))
         IN pick(qd.choices))

\* answers.find(a => a.questionId === questionId): 0 when there is none
FindAnswer(answers, q) ==
    IF \E i \in DOMAIN answers : answers[i].questionId = q
    THEN CHOOSE i \in DOMAIN answers :
            /\ answers[i].questionId = q
            /\ \A j \in 1..(i - 1) : answers[j].questionId # q
    ELSE 0

GradeEntry(q, score, maxScore, isCorrect, isPartial, feedback) ==
    [questionId |-> q, score |-> score, maxScore |-> maxScore,
     isCorrect |-> isCorrect, isPartial |-> isPartial, feedback |-> feedback]

EmptyGrade == [totalScore |-> 0, correctCount |-> 0, wrongCount |-> 0,
               partialCount |-> 0, unansweredCount |-> 0, results |-> <<>>]

\* one pass of the loop body for the served question sq
GradeQuestion(g, sq, answers, existing) ==
    LET q == sq.question
        qd == Questions[q]
        k == FindAnswer(answers, q)
        marks == IF sq.marks # 0 THEN sq.marks
                 ELSE IF qd.marks # 0 THEN qd.marks ELSE 1
        neg == qd.negativeMarks
        binary(isCorrect) ==
            [g EXCEPT
                !.totalScore = @ + (IF isCorrect THEN Units(marks) ELSE 0 - Units(neg)),
                !.correctCount = IF isCorrect THEN @ + 1 ELSE @,
                !.wrongCount = IF isCorrect THEN @ ELSE @ + 1,
                !.results = Append(@, GradeEntry(q,
                                IF isCorrect THEN Units(marks) ELSE 0 - Units(neg),
                                marks, isCorrect, FALSE,
                                IF isCorrect THEN "Correct" ELSE "Incorrect"))]
    IN
    IF q \notin existing THEN g
    ELSE IF k = 0 \/ (~answers[k].isArray /\ answers[k].str = "")
    THEN [g EXCEPT !.unansweredCount = @ + 1,
                   !.results = Append(@, GradeEntry(q, 0, marks, FALSE, FALSE,
                                                    "Not answered"))]
    ELSE IF qd.type = "mcq_single"
    THEN binary(ToStr(answers[k]) = <<qd.correct>>)
    ELSE IF qd.type = "mcq_multi"
    THEN LET correctChoices == CorrectChoices(qd)
             submittedChoices == IF answers[k].isArray
                                 THEN Sort(answers[k].arr) ELSE <<>>
             correctSelected ==
                Cardinality({i \in DOMAIN submittedChoices :
                                submittedChoices[i] \in Range(correctChoices)})
             wrongSelected ==
                Cardinality({i \in DOMAIN submittedChoices :
                                submittedChoices[i] \notin Range(correctChoices)})
             partialScore ==
                IF correctChoices = <<>> THEN 0
                ELSE Max(0, ((correctSelected - wrongSelected) * Units(marks))
                                \div Len(correctChoices))
         IN  IF correctChoices = submittedChoices
             THEN [g EXCEPT
                    !.totalScore = @ + Units(marks),
                    !.correctCount = @ + 1,
                    !.results = Append(@, GradeEntry(q, Units(marks), marks, TRUE,
                                    FALSE, "All correct answers selected"))]
             ELSE [g EXCEPT
                    !.totalScore = @ + partialScore,
                    !.partialCount = IF partialScore > 0 THEN @ + 1 ELSE @,
                    !.wrongCount = IF partialScore > 0 THEN @ ELSE @ + 1,
                    !.results = Append(@, GradeEntry(q, partialScore, marks, FALSE,
                                    partialScore > 0,
                                    IF partialScore > 0 THEN "Partially correct"
                                    ELSE "Incorrect"))]
    ELSE IF qd.type = "true_false"
    THEN binary(ToStr(answers[k]) # <<>> /\ Len(ToStr(answers[k])) = 1
                /\ ToLower(ToStr(answers[k])[1]) = ToLower(qd.correct))
    ELSE IF qd.type = "numeric"
    THEN LET d == ParseFloat(IF answers[k].isArray THEN "" ELSE answers[k].str)
                    - ParseFloat(qd.correct)
         IN binary((IF d < 0 THEN 0 - d ELSE d) <= 10)
    ELSE g

RECURSIVE GradeLoop(_, _, _, _)
GradeLoop(g, selected, answers, existing) ==
    IF selected = <<>> THEN g
    ELSE GradeLoop(GradeQuestion(g, Head(selected), answers, existing),
                   Tail(selected), answers, existing)

Grade(selected, answers, existing) ==
    GradeLoop(EmptyGrade, selected, answers, existing)

-----------------------------------------------------------------------------
(* submitQuiz *)

\* the status guard with its test removed
NotInProgress_Never(at) == FALSE

\* the status guard: only an in_progress attempt is submitted
NotInProgress(at) == at.status # "in_progress"

\* the time test without the submit grace
SubmitExpired_NoGrace(at, q, t) ==
    (t - at.startTime) \div 1000 > q.durationMinutes * 60

SubmitExpired(at, q, t) ==
    (t - at.startTime) \div 1000 > q.durationMinutes * 60 + SubmitGraceSeconds

\* the anti-cheat reasons a submit appends, in the order it tests them
RECURSIVE Concat(_)
Concat(ss) == IF ss = <<>> THEN <<>> ELSE Head(ss) \o Concat(Tail(ss))

AntiCheatReasons(at, q, tabs, ip, ua, fp, actualTimeSpent) ==
    LET maxTabSwitches == IF q.antiCheatSettings.maxTabSwitches # 0
                          THEN q.antiCheatSettings.maxTabSwitches
                          ELSE DefaultMaxTabSwitches
    IN Concat(<<
        IF tabs > maxTabSwitches
        THEN <<FlagReason("Excessive tab switches detected", "high")>> ELSE <<>>,
        IF /\ q.antiCheatSettings.trackIPAddress
           /\ ~q.antiCheatSettings.allowIPChange
           /\ at.ipAtStart # "" /\ ip # "" /\ at.ipAtStart # ip
        THEN <<FlagReason("IP address changed during quiz", "medium")>> ELSE <<>>,
        IF at.userAgentStart # "" /\ ua # "" /\ at.userAgentStart # ua
        THEN <<FlagReason("User agent changed during quiz", "medium")>> ELSE <<>>,
        IF at.clientFingerprint # "" /\ fp # "" /\ at.clientFingerprint # fp
        THEN <<FlagReason("Client fingerprint mismatch", "high")>> ELSE <<>>,
        \* actualTimeSpent < min(durationMinutes * 60 * 0.1, 60)
        IF actualTimeSpent * 10 < Min(q.durationMinutes * 60, 600)
        THEN <<FlagReason("Suspiciously fast completion", "medium")>> ELSE <<>> >>)

\* the autosaved entries kept in front of the request's answers
SubmittedAnswers_KeepAutosaved(raw, answers) == raw \o answers

\* rawAnswers as submitQuiz assigns it: the request's answers mapped one to
\* one, in place of whatever was stored
SubmittedAnswers(raw, answers) == answers

\* the attempt as submitQuiz leaves it when it grades
Graded(at, q, t, answers, tabs, ip, ua, fp, clientTime, isAuto, existing) ==
    LET actualTimeSpent == (t - at.startTime) \div 1000
        newTabs == Max(at.tabSwitches, tabs)
        reasons == AntiCheatReasons(at, q, newTabs, ip, ua, fp, actualTimeSpent)
        sub == SubmittedAnswers(at.rawAnswers, answers)
        g == Grade(at.selectedQuestions, sub, existing)
        totalScore == Max(0, g.totalScore)
    IN  [at EXCEPT
            !.rawAnswers = sub,
            !.tabSwitches = newTabs,
            !.ipAtEnd = ip,
            !.userAgentEnd = ua,
            !.isFlagged = IF reasons # <<>> THEN TRUE ELSE @,
            !.flaggedReasons = @ \o reasons,
            !.totalScore = totalScore,
            !.correctCount = g.correctCount,
            !.wrongCount = g.wrongCount,
            !.partialCount = g.partialCount,
            !.unansweredCount = g.unansweredCount,
            !.status = "submitted",
            !.endTime = t,
            !.timeSpentSeconds = IF clientTime # 0 THEN clientTime ELSE actualTimeSpent,
            !.autoGradeResult = g.results,
            !.passed = totalScore >= Units(q.passingMarks),
            !.percentage = Percentage(totalScore, at.maxScore),
            !.isAutoSubmit = isAuto]

\* schema validation that also refuses an attempt carrying flag reasons
ValidAttempt_Unflagged(at) ==
    /\ at.percentage.den # 0 \/ at.percentage = NoPercentage
    /\ at.percentage.num >= 0
    /\ at.percentage.num <= 100 * at.percentage.den
    /\ at.totalScore >= 0
    /\ at.flaggedReasons = <<>>

\* schema validation of save(): percentage is a Number in [0, 100]
ValidAttempt(at) ==
    /\ at.percentage.den # 0 \/ at.percentage = NoPercentage
    /\ at.percentage.num >= 0
    /\ at.percentage.num <= 100 * at.percentage.den
    /\ at.totalScore >= 0

\* averageScore over the attempts the transaction sees
AverageScore(tbl) ==
    LET S == {i \in DOMAIN tbl : tbl[i].status \in StatsStatuses}
    IN  [sum |-> SeqSum([i \in DOMAIN tbl |->
                            IF i \in S THEN tbl[i].totalScore ELSE 0]),
         n |-> Cardinality(S)]

SubmitBegin(w) ==
    /\ calls[w].pc = "idle"
    /\ "submit" \in env.ops[w]
    /\ \E u \in Users, a \in DOMAIN attempts :
        calls' = [calls EXCEPT ![w] =
                    [IdleCall EXCEPT !.pc = "submit", !.user = u, !.aid = a,
                                     !.t = now, !.snap = attempts]]
    /\ UNCHANGED <<now, quiz, enrolled, activeQs, attempts, gradings, manualGrades, auditLogs, env, timeUtil>>

\* ownership and status guards
SubmitReject(w) ==
    LET c == calls[w]
        at == c.snap[c.aid]
    IN  /\ at.user # c.user \/ NotInProgress(at)
        /\ calls' = Finish(calls, w,
                IF at.user # c.user THEN Response("not_authorized", "", c.aid)
                ELSE Response("already_submitted", at.status, c.aid))
        /\ UNCHANGED <<now, quiz, enrolled, activeQs, attempts, gradings, manualGrades, auditLogs, env, timeUtil>>

\* submitted after the duration plus the submit grace: timeout
SubmitExpire(w) ==
    LET c == calls[w]
        at == c.snap[c.aid]
    IN  /\ at.user = c.user /\ ~NotInProgress(at)
        /\ SubmitExpired(at, quiz, c.t)
        /\ IF c.aid \in c.wrote
           THEN /\ calls' = Finish(calls, w, Response("error", "", c.aid))
                /\ UNCHANGED attempts
           ELSE /\ attempts' = [attempts EXCEPT ![c.aid] = PreSave(
                    [at EXCEPT
                        !.status = "timeout",
                        !.endTime = c.t,
                        !.timeSpentSeconds = (c.t - at.startTime) \div 1000,
                        !.isFlagged = TRUE,
                        !.flaggedReasons = Append(@,
                            FlagReason("Submission after time limit expired", "high"))])]
                /\ calls' = Finish(NoteWrite(calls, w, c.aid, TRUE), w,
                                   Response("time_expired", "timeout", c.aid))
        /\ UNCHANGED <<now, quiz, enrolled, activeQs, gradings, manualGrades, auditLogs, env, timeUtil>>

\* the submit is graded, the attempt and the quiz statistics are written
SubmitGrade(w) ==
    LET c == calls[w]
        at == c.snap[c.aid]
    IN  /\ at.user = c.user /\ ~NotInProgress(at)
        /\ ~SubmitExpired(at, quiz, c.t)
        /\ \E answers \in env.answerLists, tabs \in env.tabSwitches, ip \in env.ips,
              ua \in UserAgents, fp \in Fingerprints, timeSpentSeconds \in env.timeSpent :
            LET new == PreSave(Graded(at, quiz, c.t, answers, tabs, ip, ua, fp,
                                      timeSpentSeconds, FALSE, QIds))
                seen == [c.snap EXCEPT ![c.aid] = new]
            IN  IF ~ValidAttempt(new) \/ c.aid \in c.wrote \/ c.quizWrote
                THEN /\ calls' = Finish(calls, w, Response("error", "", c.aid))
                     /\ UNCHANGED <<attempts, quiz, gradings>>
                ELSE /\ attempts' = [attempts EXCEPT ![c.aid] = new]
                     /\ quiz' = [quiz EXCEPT !.totalAttempts = @ + 1,
                                             !.averageScore = AverageScore(seen)]
                     /\ gradings' = [gradings EXCEPT ![c.aid] = @ + 1]
                     /\ calls' = Finish(NoteQuizWrite(NoteWrite(calls, w, c.aid, TRUE), w),
                                        w, Response("submitted", "submitted", c.aid))
        /\ UNCHANGED <<now, enrolled, activeQs, manualGrades, auditLogs, env, timeUtil>>

SubmitCommit(w) ==
    /\ calls[w].pc = "submit"
    /\ \/ SubmitReject(w)
       \/ SubmitExpire(w)
       \/ SubmitGrade(w)

-----------------------------------------------------------------------------
(* autoSaveAnswers *)

\* the request's answers stored in place of the merge
MergeAnswers_Replace(raw, answers) == answers

\* answerMap: stored entries keep their position, a new question id is
\* appended, the last entry of the request for an id wins
RECURSIVE MergeAnswers(_, _)
MergeAnswers(raw, answers) ==
    IF answers = <<>> THEN raw
    ELSE LET a == Head(answers)
             k == FindAnswer(raw, a.questionId)
         IN MergeAnswers(IF k = 0 THEN Append(raw, a) ELSE [raw EXCEPT ![k] = a],
                         Tail(answers))

\* the status guard answering yes whatever the status
AutoSaveAllowed_Always(at) == TRUE

\* "Only save if in progress"
AutoSaveAllowed(at) == at.status = "in_progress"

\* findById: the document is loaded outside any transaction
AutoSaveRead(w) ==
    /\ calls[w].pc = "idle"
    /\ "autosave" \in env.ops[w]
    /\ \E u \in Users, a \in DOMAIN attempts :
        calls' = [calls EXCEPT ![w] =
                    [IdleCall EXCEPT !.pc = "autosave", !.user = u, !.aid = a,
                                     !.t = now, !.snap = attempts]]
    /\ UNCHANGED <<now, quiz, enrolled, activeQs, attempts, gradings, manualGrades, auditLogs, env, timeUtil>>

\* the guards, the merge and save() of the loaded document
AutoSaveSave(w) ==
    LET c == calls[w]
        at == c.snap[c.aid]
    IN
    /\ c.pc = "autosave"
    /\ IF at.user # c.user \/ ~AutoSaveAllowed(at)
       THEN /\ calls' = Finish(calls, w,
                    IF at.user # c.user THEN Response("not_authorized", "", c.aid)
                    ELSE Response("cannot_save_completed", at.status, c.aid))
            /\ UNCHANGED attempts
       ELSE \E answers \in env.answerLists, tabs \in env.tabSwitches :
            LET setsRaw == answers # <<>>
                doc == PreSave([at EXCEPT
                            !.rawAnswers = IF setsRaw THEN MergeAnswers(@, answers) ELSE @,
                            !.tabSwitches = Max(@, tabs)])
                modified == setsRaw \/ doc # at
            IN  IF setsRaw /\ c.aid \in c.bumped
                THEN /\ calls' = Finish(calls, w, Response("error", "", c.aid))
                     /\ UNCHANGED attempts
                ELSE IF ~modified
                THEN /\ calls' = Finish(calls, w,
                            [Response("saved", "in_progress", c.aid)
                                EXCEPT !.body = answers])
                     /\ UNCHANGED attempts
                ELSE /\ attempts' = [attempts EXCEPT ![c.aid] =
                            [@ EXCEPT
                                !.rawAnswers = IF setsRaw THEN doc.rawAnswers ELSE @,
                                !.tabSwitches = IF doc.tabSwitches # at.tabSwitches
                                                THEN doc.tabSwitches ELSE @,
                                !.isFlagged = IF doc.isFlagged # at.isFlagged
                                              THEN doc.isFlagged ELSE @,
                                !.percentage = IF doc.percentage # at.percentage
                                               THEN doc.percentage ELSE @]]
                     /\ calls' = Finish(NoteWrite(calls, w, c.aid, setsRaw), w,
                                        [Response("saved", "in_progress", c.aid)
                                            EXCEPT !.body = answers])
    /\ UNCHANGED <<now, quiz, enrolled, activeQs, gradings, manualGrades, auditLogs, env, timeUtil>>

-----------------------------------------------------------------------------
(* saveAnswers of the attempts controller *)

\* findOne of the user's in_progress attempt, outside any transaction
SaveAnswersRead(w) ==
    /\ calls[w].pc = "idle"
    /\ "saveAnswers" \in env.ops[w]
    /\ \E u \in Users, a \in DOMAIN attempts :
        calls' = [calls EXCEPT ![w] =
                    [IdleCall EXCEPT !.pc = "saveAnswers", !.user = u, !.aid = a,
                                     !.t = now, !.snap = attempts]]
    /\ UNCHANGED <<now, quiz, enrolled, activeQs, attempts, gradings, manualGrades, auditLogs, env, timeUtil>>

\* the expiry test, which stores status 'submitted' and an endTime, or the
\* merge of the request's answers, and save() of the loaded document
SaveAnswersSave(w) ==
    LET c == calls[w]
        at == c.snap[c.aid]
        timeLimit == quiz.durationMinutes * 60 * 1000
    IN
    /\ c.pc = "saveAnswers"
    /\ IF at.user # c.user \/ at.status # "in_progress"
       THEN /\ calls' = Finish(calls, w, Response("attempt_not_found", "", c.aid))
            /\ UNCHANGED attempts
       ELSE IF c.t - at.startTime > timeLimit
       THEN /\ attempts' = [attempts EXCEPT ![c.aid] =
                    SaveModified(@, at, PreSave(
                        [at EXCEPT !.status = "submitted",
                                   !.endTime = at.startTime + timeLimit]))]
            /\ calls' = Finish(NoteWrite(calls, w, c.aid, FALSE), w,
                               Response("auto_submitted", "submitted", c.aid))
       ELSE \E answers \in env.answerLists :
            IF c.aid \in c.bumped
            THEN /\ calls' = Finish(calls, w, Response("error", "", c.aid))
                 /\ UNCHANGED attempts
            ELSE /\ attempts' = [attempts EXCEPT ![c.aid] =
                        [SaveModified(@, at, PreSave(at))
                            EXCEPT !.rawAnswers = MergeAnswers(at.rawAnswers, answers)]]
                 /\ calls' = Finish(NoteWrite(calls, w, c.aid, TRUE), w,
                                    [Response("answers_saved", "in_progress", c.aid)
                                        EXCEPT !.body = answers])
    /\ UNCHANGED <<now, quiz, enrolled, activeQs, gradings, manualGrades, auditLogs, env, timeUtil>>

-----------------------------------------------------------------------------
(* logAuditEvent *)

\* eventType, as the route validates it
EventTypes == {"tab_switch", "heartbeat"}

\* findOne by id, user and status in_progress, outside any transaction
AuditRead(w) ==
    /\ calls[w].pc = "idle"
    /\ "audit" \in env.ops[w]
    /\ Len(auditLogs) < MaxAuditLogs
    /\ \E u \in Users, a \in DOMAIN attempts :
        calls' = [calls EXCEPT ![w] =
                    [IdleCall EXCEPT !.pc = "audit", !.user = u, !.aid = a,
                                     !.t = now, !.snap = attempts]]
    /\ UNCHANGED <<now, quiz, enrolled, activeQs, attempts, gradings, manualGrades, auditLogs, env, timeUtil>>

\* the audit log entry, then the counter and save() of the loaded document
AuditSave(w) ==
    LET c == calls[w]
        at == c.snap[c.aid]
    IN
    /\ c.pc = "audit"
    /\ IF at.user # c.user \/ at.status # "in_progress"
       THEN /\ calls' = Finish(calls, w, Response("attempt_not_found", "", c.aid))
            /\ UNCHANGED <<attempts, auditLogs>>
       ELSE \E ev \in EventTypes :
            /\ auditLogs' = Append(auditLogs, [attemptId |-> c.aid, eventType |-> ev])
            /\ IF ev = "tab_switch"
               THEN /\ attempts' = [attempts EXCEPT ![c.aid] =
                            SaveModified(@, at,
                                PreSave([at EXCEPT !.tabSwitches = @ + 1]))]
                    /\ calls' = Finish(NoteWrite(calls, w, c.aid, FALSE), w,
                                       Response("event_logged", "in_progress", c.aid))
               ELSE /\ calls' = Finish(calls, w,
                                       Response("event_logged", "in_progress", c.aid))
                    /\ UNCHANGED attempts
    /\ UNCHANGED <<now, quiz, enrolled, activeQs, gradings, manualGrades, env, timeUtil>>

-----------------------------------------------------------------------------
(* getAttemptById *)

\* the fetch finds the quiz window closed
FetchWindowEnded(at, q, t) == t > q.endTime

\* the fetch finds the attempt older than the quiz duration
FetchExpired(at, q, t) ==
    t - at.startTime > q.durationMinutes * 60 * 1000

\* findById with the quiz populated: the document is loaded outside any
\* transaction
FetchRead(w) ==
    /\ calls[w].pc = "idle"
    /\ "fetch" \in env.ops[w]
    /\ \E u \in Users, a \in DOMAIN attempts :
        calls' = [calls EXCEPT ![w] =
                    [IdleCall EXCEPT !.pc = "fetch", !.user = u, !.aid = a,
                                     !.t = now, !.snap = attempts]]
    /\ UNCHANGED <<now, quiz, enrolled, activeQs, attempts, gradings, manualGrades, auditLogs, env, timeUtil>>

\* the ownership guard, the two expiry tests and save() of the loaded
\* document, which sends status, endTime and timeSpentSeconds only
FetchSave(w) ==
    LET c == calls[w]
        at == c.snap[c.aid]
        ended == FetchWindowEnded(at, quiz, c.t)
    IN
    /\ c.pc = "fetch"
    /\ IF at.user # c.user
       THEN /\ calls' = Finish(calls, w, Response("not_authorized", "", c.aid))
            /\ UNCHANGED attempts
       ELSE IF at.status = "in_progress" /\ (ended \/ FetchExpired(at, quiz, c.t))
       THEN /\ attempts' = [attempts EXCEPT ![c.aid] =
                    SaveModified(@, at, PreSave(
                        [at EXCEPT !.status = "timeout",
                                   !.endTime = c.t,
                                   !.timeSpentSeconds = (c.t - at.startTime) \div 1000]))]
            /\ calls' = Finish(NoteWrite(calls, w, c.aid, FALSE), w,
                               Response(IF ended THEN "window_ended"
                                        ELSE "duration_exceeded",
                                        "timeout", c.aid))
       ELSE /\ calls' = Finish(calls, w,
                               WithServed(Response("fetched", at.status, c.aid),
                                          [i \in DOMAIN at.selectedQuestions |->
                                              StoredView(at.selectedQuestions[i])]))
            /\ UNCHANGED attempts
    /\ UNCHANGED <<now, quiz, enrolled, activeQs, gradings, manualGrades, auditLogs, env, timeUtil>>

-----------------------------------------------------------------------------
(* getMyAttemptDetail *)

\* findById with the quiz and the snapshot's questions populated, the
\* ownership guard, and the document sent as it is
AttemptDetail(w) ==
    /\ calls[w].pc = "idle"
    /\ "detail" \in env.ops[w]
    /\ \E u \in Users, a \in DOMAIN attempts :
        LET at == attempts[a] IN
        calls' = Finish(calls, w,
                    IF at.user # u THEN Response("not_allowed", "", a)
                    ELSE WithServed(Response("detail", at.status, a),
                                    [i \in DOMAIN at.selectedQuestions |->
                                        PopulatedView(at.selectedQuestions[i])]))
    /\ UNCHANGED <<now, quiz, enrolled, activeQs, attempts, gradings, manualGrades, auditLogs, env, timeUtil>>

-----------------------------------------------------------------------------
(* submitAttempt of the attempts controller *)

\* the entry of one served question in the result of autoGrade: an
\* unanswered question scores 0, mcq_single scores its marks or minus its
\* negative marks, an answered short_answer has its score withheld
AutoGradeEntry(sq, answers) ==
    LET q == sq.question
        qd == Questions[q]
        k == FindAnswer(answers, q)
    IN  IF k = 0 \/ (~answers[k].isArray /\ answers[k].str = "")
        THEN GradeEntry(q, 0, sq.marks, FALSE, FALSE, "Not answered")
        ELSE IF qd.type = "short_answer"
        THEN GradeEntry(q, 0, sq.marks, FALSE, FALSE, "Requires manual review")
        ELSE IF ToStr(answers[k]) = <<qd.correct>>
        THEN GradeEntry(q, Units(sq.marks), sq.marks, TRUE, FALSE, "Correct")
        ELSE GradeEntry(q, 0 - Units(qd.negativeMarks), sq.marks, FALSE, FALSE,
                        "Incorrect")

\* gradingService.autoGrade: one entry per served question, the total
\* clamped at 0, and the manual-review signal of an answered short_answer
autoGrade(at, q) ==
    LET results == [i \in DOMAIN at.selectedQuestions |->
                        AutoGradeEntry(at.selectedQuestions[i], at.rawAnswers)]
    IN  [results |-> results,
         totalScore |-> Max(0, SeqSum([i \in DOMAIN results |-> results[i].score])),
         needsManualReview |->
            \E i \in DOMAIN at.selectedQuestions :
                /\ Questions[at.selectedQuestions[i].question].type = "short_answer"
                /\ results[i].feedback # "Not answered"]

\* the reasons submitAttempt collects, as the strings it builds
AttemptFlags(at, q, t, ip) ==
    Concat(<<
        IF at.tabSwitches > ConfigMaxTabSwitches
        THEN <<"Excessive tab switches">> ELSE <<>>,
        \* config.antiCheat has no allowIPChange
        IF at.ipAtStart # ip THEN <<"IP address changed during attempt">> ELSE <<>>,
        \* actualTime < expectedMinTime * 0.1
        IF (t - at.startTime) * 10 < q.durationMinutes * 60 * 1000
        THEN <<"Submitted suspiciously fast">> ELSE <<>> >>)

\* averageScore over the graded attempts the transaction sees
AverageGraded(tbl) ==
    LET S == {i \in DOMAIN tbl : tbl[i].status \in {"auto_graded", "flagged"}}
    IN  [sum |-> SeqSum([i \in DOMAIN tbl |->
                            IF i \in S THEN tbl[i].totalScore ELSE 0]),
         n |-> Cardinality(S)]

\* the transaction starts: its snapshot and the clock it reads
SubmitAttemptBegin(w) ==
    /\ calls[w].pc = "idle"
    /\ "submitAttempt" \in env.ops[w]
    /\ \E u \in Users, a \in DOMAIN attempts :
        calls' = [calls EXCEPT ![w] =
                    [IdleCall EXCEPT !.pc = "submitAttempt", !.user = u, !.aid = a,
                                     !.t = now, !.snap = attempts]]
    /\ UNCHANGED <<now, quiz, enrolled, activeQs, attempts, gradings, manualGrades, auditLogs, env, timeUtil>>

\* the guards, the flags, the grading and the commit.  The reasons are
\* strings assigned to an array of subdocuments: when there is any, the
\* cast fails, save() rejects and the transaction is aborted
SubmitAttemptCommit(w) ==
    LET c == calls[w]
        at == c.snap[c.aid]
    IN
    /\ c.pc = "submitAttempt"
    /\ IF at.user # c.user
       THEN /\ calls' = Finish(calls, w, Response("attempt_not_found", "", c.aid))
            /\ UNCHANGED <<attempts, quiz, gradings>>
       ELSE IF at.status # "in_progress"
       THEN /\ calls' = Finish(calls, w, Response("already_submitted", at.status, c.aid))
            /\ UNCHANGED <<attempts, quiz, gradings>>
       ELSE \E ip \in env.ips, ua \in UserAgents :
            LET flags == AttemptFlags(at, quiz, c.t, ip)
                g == autoGrade(at, quiz)
                doc == PreSave([at EXCEPT
                            !.endTime = c.t,
                            !.ipAtEnd = ip,
                            !.userAgentEnd = ua,
                            !.autoGradeResult = g.results,
                            !.totalScore = g.totalScore,
                            !.status = IF g.needsManualReview
                                       THEN "needs_manual_review" ELSE "auto_graded"])
                avg == AverageGraded([c.snap EXCEPT ![c.aid] = doc])
            IN  IF \/ flags # <<>>
                   \/ c.aid \in c.wrote
                   \/ (avg.n > 0 /\ c.quizWrote)
                THEN /\ calls' = Finish(calls, w, Response("error", "", c.aid))
                     /\ UNCHANGED <<attempts, quiz, gradings>>
                ELSE /\ attempts' = [attempts EXCEPT ![c.aid] = doc]
                     /\ gradings' = [gradings EXCEPT ![c.aid] = @ + 1]
                     /\ IF avg.n > 0
                        THEN /\ quiz' = [quiz EXCEPT !.averageScore = avg]
                             /\ calls' = Finish(
                                    NoteQuizWrite(NoteWrite(calls, w, c.aid, TRUE), w),
                                    w, Response("attempt_submitted", doc.status, c.aid))
                        ELSE /\ UNCHANGED quiz
                             /\ calls' = Finish(NoteWrite(calls, w, c.aid, TRUE), w,
                                    Response("attempt_submitted", doc.status, c.aid))
    /\ UNCHANGED <<now, enrolled, activeQs, manualGrades, auditLogs, env, timeUtil>>

-----------------------------------------------------------------------------
(* gradeAnswer and finalizeGrading of the attempts controller *)

\* questionId of a grading request: a question of the bank or an unknown id
GradeQuestionIds == CoreQs \cup {"q0"}

\* score of a grading request, in marks
GradeScores == {0, 3}

\* the sum gradeAnswer takes over Object.values(autoGradeResult): the score
\* of every stored entry and the score just attached under the question id
ManualTotal(at, score) ==
    SeqSum([i \in DOMAIN at.autoGradeResult |-> at.autoGradeResult[i].score])
        + Units(score)

\* findById of the attempt, outside any transaction
GradeRead(w) ==
    /\ calls[w].pc = "idle"
    /\ "grade" \in env.ops[w]
    /\ \E a \in DOMAIN attempts :
        calls' = [calls EXCEPT ![w] =
                    [IdleCall EXCEPT !.pc = "grade", !.aid = a,
                                     !.t = now, !.snap = attempts]]
    /\ UNCHANGED <<now, quiz, enrolled, activeQs, attempts, gradings, manualGrades, auditLogs, env, timeUtil>>

\* the question lookup, the score bound, the total and save(): the entry
\* attached to the array under the question id is no array element and is
\* not stored; totalScore is validated (min 0) before the pre('save') hook
\* recomputes percentage
GradeSave(w) ==
    LET c == calls[w]
        at == c.snap[c.aid]
    IN
    /\ c.pc = "grade"
    /\ \E qid \in GradeQuestionIds, score \in GradeScores :
        IF qid \notin QIds
        THEN /\ calls' = Finish(calls, w, Response("question_not_found", "", c.aid))
             /\ UNCHANGED <<attempts, manualGrades>>
        ELSE IF score > Questions[qid].marks
        THEN /\ calls' = Finish(calls, w, Response("score_exceeds_marks", "", c.aid))
             /\ UNCHANGED <<attempts, manualGrades>>
        ELSE LET total == ManualTotal(at, score)
                 doc == PreSave([at EXCEPT !.totalScore = total])
             IN  IF total < 0
                 THEN /\ calls' = Finish(calls, w, Response("error", "", c.aid))
                      /\ UNCHANGED <<attempts, manualGrades>>
                 ELSE /\ attempts' = [attempts EXCEPT ![c.aid] =
                                        SaveModified(@, at, doc)]
                      /\ manualGrades' = [manualGrades EXCEPT ![c.aid][qid] = score]
                      /\ calls' = Finish(NoteWrite(calls, w, c.aid, FALSE), w,
                                         Response("graded", at.status, c.aid))
    /\ UNCHANGED <<now, quiz, enrolled, activeQs, gradings, auditLogs, env, timeUtil>>

\* the statuses finalizeGrading accepts
PendingReview(at) == at.status \in {"needs_manual_review", "flagged"}

\* the number of questions finalizeGrading expects graded
ExpectedQuestionCount(q) ==
    IF q.questionMode = "fixed_list" THEN Len(q.questionIds) ELSE q.poolCount

\* findById of the attempt, outside any transaction
FinalizeRead(w) ==
    /\ calls[w].pc = "idle"
    /\ "finalize" \in env.ops[w]
    /\ \E a \in DOMAIN attempts :
        calls' = [calls EXCEPT ![w] =
                    [IdleCall EXCEPT !.pc = "finalize", !.aid = a,
                                     !.t = now, !.snap = attempts]]
    /\ UNCHANGED <<now, quiz, enrolled, activeQs, attempts, gradings, manualGrades, auditLogs, env, timeUtil>>

\* the status guard, the count of graded questions, the status and save()
FinalizeSave(w) ==
    LET c == calls[w]
        at == c.snap[c.aid]
    IN
    /\ c.pc = "finalize"
    /\ IF ~PendingReview(at)
       THEN /\ calls' = Finish(calls, w, Response("not_pending_review", at.status, c.aid))
            /\ UNCHANGED attempts
       ELSE IF Len(at.autoGradeResult) < ExpectedQuestionCount(quiz)
       THEN /\ calls' = Finish(calls, w, Response("not_all_graded", at.status, c.aid))
            /\ UNCHANGED attempts
       ELSE /\ attempts' = [attempts EXCEPT ![c.aid] =
                    SaveModified(@, at, PreSave([at EXCEPT !.status = "auto_graded"]))]
            /\ calls' = Finish(NoteWrite(calls, w, c.aid, FALSE), w,
                               Response("finalized", "auto_graded", c.aid))
    /\ UNCHANGED <<now, quiz, enrolled, activeQs, gradings, manualGrades, auditLogs, env, timeUtil>>

-----------------------------------------------------------------------------
(* utils/time.js *)

\* the arguments the utility is called with
TimeStarts == {0, 500, 1000}
TimeDurations == {0, 1, 2}
TimeGraces == {0, 1}
TimeInstants == {0, 500, 1000, 1999, 2000, 2500, 3000, 4000}

\* getTimeRemaining(startTime, durationSeconds) called at server time t
getTimeRemaining(t, startTime, durationSeconds) ==
    LET elapsed == (t - startTime) \div 1000
        remaining == durationSeconds - elapsed
    IN  IF remaining > 0 THEN remaining ELSE 0

\* isExpired(startTime, durationSeconds) called at server time t
isExpired(t, startTime, durationSeconds) ==
    getTimeRemaining(t, startTime, durationSeconds) <= 0

\* the server clock advances between two calls of the utility
TimeTick ==
    /\ \E t \in TimeInstants : t > now /\ now' = t
    /\ UNCHANGED <<quiz, enrolled, activeQs, attempts, calls, gradings,
                   manualGrades, auditLogs, env, timeUtil>>

GetTimeRemainingCall ==
    /\ \E st \in TimeStarts, d \in TimeDurations :
        timeUtil' = [NoTimeCall EXCEPT
                        !.op = "getTimeRemaining", !.at = now,
                        !.startTime = st, !.durationSeconds = d,
                        !.remaining = getTimeRemaining(now, st, d)]
    /\ UNCHANGED <<now, quiz, enrolled, activeQs, attempts, calls, gradings,
                   manualGrades, auditLogs, env>>

\* a caller that passes a grace period as third argument: the method
\* declares two parameters and the third is ignored
IsExpiredCall ==
    /\ \E st \in TimeStarts, d \in TimeDurations, g \in TimeGraces :
        timeUtil' = [NoTimeCall EXCEPT
                        !.op = "isExpired", !.at = now,
                        !.startTime = st, !.durationSeconds = d,
                        !.gracePeriodSeconds = g,
                        !.expired = isExpired(now, st, d)]
    /\ UNCHANGED <<now, quiz, enrolled, activeQs, attempts, calls, gradings,
                   manualGrades, auditLogs, env>>

TimeInit ==
    /\ now = 0
    /\ timeUtil = NoTimeCall
    /\ env = [ops |-> [w \in Workers |-> {}], instants |-> TimeInstants,
              ips |-> {}, answerLists |-> {}, tabSwitches |-> {},
              deleted |-> {}, timeSpent |-> {}]
    /\ quiz = InitQuiz(Scenario([w \in Workers |-> {}], TimeInstants, {}, {}, {},
                                TRUE, Users, "none", {}, 1, FALSE))
    /\ enrolled = Users
    /\ activeQs = {}
    /\ attempts = <<>>
    /\ calls = [w \in Workers |-> IdleCall]
    /\ gradings = <<>>
    /\ manualGrades = <<>>
    /\ auditLogs = <<>>

TimeNext ==
    \/ TimeTick
    \/ GetTimeRemainingCall
    \/ IsExpiredCall

TimeSpec == TimeInit /\ [][TimeNext]_vars

-----------------------------------------------------------------------------
Next ==
    \/ Tick
    \/ \E w \in Workers : StartBegin(w)
    \/ \E w \in Workers : StartCommit(w)
    \/ \E w \in Workers : SubmitBegin(w)
    \/ \E w \in Workers : SubmitCommit(w)
    \/ \E w \in Workers : AutoSaveRead(w)
    \/ \E w \in Workers : AutoSaveSave(w)
    \/ \E w \in Workers : FetchRead(w)
    \/ \E w \in Workers : FetchSave(w)
    \/ \E w \in Workers : AttemptDetail(w)
    \/ \E w \in Workers : SaveAnswersRead(w)
    \/ \E w \in Workers : SaveAnswersSave(w)
    \/ \E w \in Workers : AuditRead(w)
    \/ \E w \in Workers : AuditSave(w)
    \/ \E w \in Workers : SubmitAttemptBegin(w)
    \/ \E w \in Workers : SubmitAttemptCommit(w)
    \/ \E w \in Workers : GradeRead(w)
    \/ \E w \in Workers : GradeSave(w)
    \/ \E w \in Workers : FinalizeRead(w)
    \/ \E w \in Workers : FinalizeSave(w)

Spec == Init /\ [][Next]_vars

TypeOK ==
    /\ now \in env.instants \cup {0}
    /\ Len(attempts) <= MaxAttempts
    /\ Len(gradings) = Len(attempts)
    /\ Len(manualGrades) = Len(attempts)
    /\ Len(auditLogs) <= MaxAuditLogs

-----------------------------------------------------------------------------
(* Properties of submitQuiz under concurrency *)

\* C1: when submitQuiz calls run concurrently on one attempt, at most one of
\* them grades it; every call that completes after the attempt has left
\* in_progress is rejected as already submitted and writes nothing.
C1_OnlyOneSubmitWins ==
    [][\A w \in Workers :
        (calls[w].pc = "submit" /\ calls'[w].pc = "idle") =>
            LET a == calls[w].aid IN
            /\ gradings'[a] <= 1
            /\ attempts[a].status # "in_progress" =>
                /\ calls'[w].resp.kind = "already_submitted"
                /\ attempts' = attempts
                /\ quiz' = quiz]_vars

\* C2: a submitQuiz call that reads an attempt whose status is not
\* in_progress is rejected with that status and leaves every attempt and
\* the quiz statistics as they were; no attempt is graded more than once.
C2_SubmitRejectedWhenNotInProgress ==
    [][/\ \A a \in DOMAIN gradings' : gradings'[a] <= 1
       /\ \A w \in Workers :
            (/\ calls[w].pc = "submit" /\ calls'[w].pc = "idle"
             /\ calls[w].snap[calls[w].aid].status # "in_progress") =>
                /\ calls'[w].resp.kind = "already_submitted"
                /\ calls'[w].resp.status = calls[w].snap[calls[w].aid].status
                /\ attempts' = attempts
                /\ quiz' = quiz
                /\ gradings' = gradings]_vars

\* a second submit of a graded attempt has been rejected with its status
C2_Witness ==
    \E w \in Workers :
        /\ calls[w].resp.kind = "already_submitted"
        /\ calls[w].resp.status = "submitted"
        /\ attempts[calls[w].resp.attemptId].status = "submitted"
        /\ gradings[calls[w].resp.attemptId] = 1
        /\ quiz.totalAttempts = 1

-----------------------------------------------------------------------------
(* Properties of startQuiz *)

\* C3: a user never has more than one in_progress attempt of the quiz,
\* whatever the interleaving of concurrent startQuiz calls.
C3_OneInProgressPerUser ==
    \A u \in Users :
        Cardinality({i \in DOMAIN attempts :
                        attempts[i].user = u /\ attempts[i].status = "in_progress"}) <= 1

-----------------------------------------------------------------------------
(* Properties of autoSaveAnswers racing submitQuiz *)

\* C5: once an attempt has left in_progress, no step changes its rawAnswers
\* or its tabSwitches: an autoSaveAnswers call that completes after the
\* submit wrote the terminal status overwrites nothing.
C5_AutosaveCannotOverwriteSubmit ==
    [][/\ \A a \in DOMAIN attempts :
            attempts[a].status # "in_progress" =>
                /\ attempts'[a].rawAnswers = attempts[a].rawAnswers
                /\ attempts'[a].tabSwitches = attempts[a].tabSwitches
       /\ \A w \in Workers :
            (/\ calls[w].pc = "autosave" /\ calls'[w].pc = "idle"
             /\ attempts[calls[w].aid].status # "in_progress") =>
                attempts' = attempts]_vars

-----------------------------------------------------------------------------
(* Rejections and time limits *)

\* C6: a startQuiz call that fails an eligibility check, or that has no
\* attempt to resume and no question to serve, is rejected, adds no attempt
\* and changes no attempt and no quiz field; a call one second after
\* quiz.endTime adds no attempt; a call of an enrolled user at exactly
\* startTime or endTime of a published quiz is not rejected for the window.
C6_RejectedStartCreatesNothing ==
    [][\A w \in Workers :
        (calls[w].pc = "start" /\ calls'[w].pc = "idle") =>
            LET c == calls[w]
                mine == {i \in DOMAIN c.snap : c.snap[i].user = c.user}
                active == {i \in mine : c.snap[i].status = "in_progress"}
                completed == {i \in mine : c.snap[i].status \in
                                {"submitted", "auto_graded", "timeout",
                                 "manually_graded"}}
                eligible == /\ quiz.isPublished
                            /\ c.user \in enrolled
                            /\ c.t >= quiz.startTime
                            /\ c.t <= quiz.endTime
                            /\ Cardinality(completed) < quiz.attemptsAllowed
                available ==
                    CASE quiz.questionMode = "fixed_list"
                            -> {quiz.questionIds[i] : i \in DOMAIN quiz.questionIds}
                                    \cap activeQs
                      [] quiz.questionMode = "pool_random" -> activeQs
                      [] OTHER -> {}
            IN  /\ (~eligible \/ (active = {} /\ available = {})) =>
                        /\ calls'[w].resp.kind \notin {"started", "resumed"}
                        /\ attempts' = attempts
                        /\ quiz' = quiz
                /\ c.t = quiz.endTime + 1000 => Len(attempts') = Len(attempts)
                /\ (/\ c.t \in {quiz.startTime, quiz.endTime}
                    /\ quiz.isPublished /\ c.user \in enrolled) =>
                        calls'[w].resp.kind \notin {"quiz_not_started", "quiz_ended"}]_vars

\* C7: a startQuiz call that passes the eligibility checks and finds an
\* in_progress attempt started more than durationMinutes * 60 s + 60 s ago
\* sets it to timeout with endTime, timeSpentSeconds = floor of the elapsed
\* seconds, isFlagged and one more high-severity reason, is rejected and adds
\* no attempt; at or below that bound the attempt stays in_progress and the
\* call returns it resumed (calls aborted by a storage error set aside).
C7_ResumeExpiry ==
    [][\A w \in Workers :
        (/\ calls[w].pc = "start" /\ calls'[w].pc = "idle"
         /\ calls'[w].resp.kind # "error") =>
            LET c == calls[w]
                mine == {i \in DOMAIN c.snap : c.snap[i].user = c.user}
                active == {i \in mine : c.snap[i].status = "in_progress"}
                completed == {i \in mine : c.snap[i].status \in
                                {"submitted", "auto_graded", "timeout",
                                 "manually_graded"}}
                eligible == /\ quiz.isPublished
                            /\ c.user \in enrolled
                            /\ c.t >= quiz.startTime
                            /\ c.t <= quiz.endTime
                            /\ Cardinality(completed) < quiz.attemptsAllowed
                a == calls'[w].resp.attemptId
                at == c.snap[a]
                elapsed == c.t - at.startTime
                new == attempts'[a]
            IN  (eligible /\ active # {}) =>
                /\ a \in active
                /\ Len(attempts') = Len(attempts)
                /\ IF elapsed > quiz.durationMinutes * 60 * 1000 + 60 * 1000
                   THEN /\ calls'[w].resp.kind = "previous_attempt_expired"
                        /\ new.status = "timeout"
                        /\ new.endTime = c.t
                        /\ new.timeSpentSeconds = elapsed \div 1000
                        /\ new.isFlagged
                        /\ Len(new.flaggedReasons) = Len(at.flaggedReasons) + 1
                        /\ new.flaggedReasons[Len(new.flaggedReasons)].severity = "high"
                   ELSE /\ calls'[w].resp.kind = "resumed"
                        /\ new.status = "in_progress"
                        /\ new.endTime = at.endTime]_vars

\* an attempt was resumed exactly at the bound and timed out by the next
\* resume, half a second later
C7_Witness ==
    \E w \in Workers :
        /\ calls[w].resp.kind = "previous_attempt_expired"
        /\ LET at == attempts[calls[w].resp.attemptId]
           IN  /\ at.status = "timeout"
               /\ at.resumeCount = 1
               /\ at.lastResumeTime - at.startTime = 120000
               /\ at.endTime - at.startTime = 120500
               /\ at.timeSpentSeconds = 120
               /\ at.isFlagged
        /\ Len(attempts) = 1

\* C8: a submitQuiz call on an in_progress attempt whose elapsed whole
\* seconds exceed durationMinutes * 60 + 30 is rejected: the attempt becomes
\* timeout with endTime, timeSpentSeconds and one more high-severity reason,
\* and keeps its rawAnswers, autoGradeResult and totalScore; at or below the
\* bound the submit is graded (calls aborted by a storage error set aside).
C8_SubmitExpiry ==
    [][\A w \in Workers :
        (/\ calls[w].pc = "submit" /\ calls'[w].pc = "idle"
         /\ calls[w].snap[calls[w].aid].status = "in_progress"
         /\ calls[w].snap[calls[w].aid].user = calls[w].user
         /\ calls'[w].resp.kind # "error") =>
            LET c == calls[w]
                a == c.aid
                at == c.snap[a]
                secs == (c.t - at.startTime) \div 1000
                new == attempts'[a]
            IN  IF secs > quiz.durationMinutes * 60 + 30
                THEN /\ calls'[w].resp.kind = "time_expired"
                     /\ new.status = "timeout"
                     /\ new.endTime = c.t
                     /\ new.timeSpentSeconds = secs
                     /\ new.isFlagged
                     /\ Len(new.flaggedReasons) = Len(at.flaggedReasons) + 1
                     /\ new.flaggedReasons[Len(new.flaggedReasons)].severity = "high"
                     /\ new.rawAnswers = at.rawAnswers
                     /\ new.autoGradeResult = at.autoGradeResult
                     /\ new.totalScore = at.totalScore
                     /\ new.percentage = at.percentage
                     /\ gradings' = gradings
                     /\ quiz' = quiz
                ELSE /\ calls'[w].resp.kind = "submitted"
                     /\ gradings'[a] = gradings[a] + 1
                     /\ new.status # "in_progress"
                     /\ new.endTime = c.t
                     /\ new.autoGradeResult =
                            Grade(at.selectedQuestions, new.rawAnswers, QIds).results
                     /\ quiz'.totalAttempts = quiz.totalAttempts + 1]_vars

\* a submit 91 whole seconds after the start of a one-minute attempt has
\* been rejected and nothing of it was stored
C8_Witness ==
    \E w \in Workers :
        /\ calls[w].resp.kind = "time_expired"
        /\ LET at == attempts[calls[w].resp.attemptId]
           IN  /\ at.status = "timeout"
               /\ at.timeSpentSeconds = 91
               /\ at.endTime - at.startTime = 91000
               /\ at.rawAnswers = <<>>
               /\ at.autoGradeResult = <<>>
               /\ gradings[calls[w].resp.attemptId] = 0
        /\ quiz.totalAttempts = 0

\* C9: a submitQuiz call on an in_progress attempt made after quiz.endTime
\* is rejected and the attempt becomes timeout, whatever time the attempt
\* itself has left (calls aborted by a storage error set aside).
C9_SubmitAfterWindowRejected ==
    [][\A w \in Workers :
        (/\ calls[w].pc = "submit" /\ calls'[w].pc = "idle"
         /\ calls[w].snap[calls[w].aid].status = "in_progress"
         /\ calls[w].snap[calls[w].aid].user = calls[w].user
         /\ calls[w].t > quiz.endTime
         /\ calls'[w].resp.kind # "error") =>
            /\ calls'[w].resp.kind # "submitted"
            /\ attempts'[calls[w].aid].status = "timeout"
            /\ gradings' = gradings]_vars

\* C10: a submitQuiz call that succeeds leaves the attempt auto_graded when
\* no selected question needs manual review and no high-severity reason is
\* recorded, and needs_manual_review or flagged otherwise; never submitted.
C10_SubmitResolvesStatus ==
    [][\A w \in Workers :
        (/\ calls[w].pc = "submit" /\ calls'[w].pc = "idle"
         /\ calls'[w].resp.kind = "submitted") =>
            LET new == attempts'[calls[w].aid]
                manual == \E i \in DOMAIN new.selectedQuestions :
                            new.selectedQuestions[i].type \in
                                {"short_answer", "long_answer", "file_upload"}
                high == \E i \in DOMAIN new.flaggedReasons :
                            new.flaggedReasons[i].severity = "high"
            IN  /\ new.status # "submitted"
                /\ IF manual \/ high
                   THEN new.status \in {"needs_manual_review", "flagged"}
                   ELSE new.status = "auto_graded"]_vars

-----------------------------------------------------------------------------
(* Lazy expiry and autosave *)

\* C11: every entry point checks expiry first: when a startQuiz (past its
\* eligibility checks), autoSaveAnswers, submitQuiz or getAttemptById call
\* completes on an in_progress attempt of the caller that is older than the
\* quiz duration plus 60 s, the attempt is in timeout afterwards, and such an
\* autosave leaves rawAnswers as they were (calls aborted by a storage error
\* set aside).
C11_ExpiryCheckedFirst ==
    [][\A w \in Workers :
        (/\ calls[w].pc \in {"start", "autosave", "submit", "fetch"}
         /\ calls'[w].pc = "idle"
         /\ calls'[w].resp.kind # "error") =>
            LET c == calls[w]
                mine == {i \in DOMAIN c.snap : c.snap[i].user = c.user}
                completed == {i \in mine : c.snap[i].status \in
                                {"submitted", "auto_graded", "timeout",
                                 "manually_graded"}}
                eligible == /\ quiz.isPublished
                            /\ c.user \in enrolled
                            /\ c.t >= quiz.startTime
                            /\ c.t <= quiz.endTime
                            /\ Cardinality(completed) < quiz.attemptsAllowed
                a == IF c.pc = "start" THEN calls'[w].resp.attemptId ELSE c.aid
                touched == /\ a \in mine
                           /\ c.pc = "start" => eligible
                           /\ c.snap[a].status = "in_progress"
                           /\ c.t - c.snap[a].startTime >
                                quiz.durationMinutes * 60 * 1000 + 60 * 1000
            IN  touched =>
                    /\ attempts'[a].status = "timeout"
                    /\ c.pc = "autosave" =>
                            attempts'[a].rawAnswers = attempts[a].rawAnswers]_vars

C13_AutosaveMerges ==
    [][/\ \A w \in Workers :
            (/\ calls[w].pc = "autosave" /\ calls'[w].pc = "idle"
             /\ calls'[w].resp.kind = "saved") =>
                LET A == calls'[w].resp.body
                    old == attempts[calls[w].aid].rawAnswers
                    new == attempts'[calls[w].aid].rawAnswers
                    ids(s) == {s[i].questionId : i \in DOMAIN s}
                    last(q) == CHOOSE i \in DOMAIN A :
                                /\ A[i].questionId = q
                                /\ \A j \in DOMAIN A : A[j].questionId = q => j <= i
                IN  /\ \A i, j \in DOMAIN new :
                            new[i].questionId = new[j].questionId => i = j
                    /\ ids(new) = ids(old) \cup ids(A)
                    /\ \A q \in ids(A) :
                            \E i \in DOMAIN new : new[i] = A[last(q)]
                    /\ \A q \in ids(old) \ ids(A) :
                            \E i \in DOMAIN new, k \in DOMAIN old :
                                old[k].questionId = q /\ new[i] = old[k]
       /\ \A a \in DOMAIN attempts :
            (/\ attempts[a].status = "in_progress"
             /\ attempts'[a].status = "in_progress"
             /\ attempts'[a].rawAnswers # attempts[a].rawAnswers) =>
                \E w \in Workers :
                    /\ calls[w].pc \in {"autosave", "saveAnswers"}
                    /\ calls'[w].pc = "idle"
                    /\ calls[w].aid = a]_vars

\* an autosave whose list named q1 twice was merged into an attempt that
\* already held an answer to q2: q2 kept its entry, q1 took the later value
C13_Witness ==
    \E w \in Workers :
        /\ calls[w].resp.kind = "saved"
        /\ calls[w].resp.body = <<StrAns("q1", "a"), StrAns("q1", "b")>>
        /\ attempts[calls[w].resp.attemptId].rawAnswers =
                <<StrAns("q2", "essay"), StrAns("q1", "b")>>

\* C14: the tabSwitches counter of an attempt never decreases, whatever
\* autoSaveAnswers, logAuditEvent and submitQuiz calls run and however they
\* interleave.
C14_TabSwitchesNeverDecrease ==
    [][\A a \in DOMAIN attempts :
        attempts'[a].tabSwitches >= attempts[a].tabSwitches]_vars

\* C15: the question snapshot of an attempt is frozen once it is not empty:
\* no step (resume, autosave, submit, fetch, audit event) changes a non-empty
\* selectedQuestions, so every resume returns the same question order and
\* choice order; the snapshot is rebuilt only when it was found empty.
C15_SnapshotFrozen ==
    [][\A a \in DOMAIN attempts :
        attempts[a].selectedQuestions # <<>> =>
            attempts'[a].selectedQuestions = attempts[a].selectedQuestions]_vars

\* an attempt of a quiz with shuffled choices was resumed twice, and its
\* snapshot holds the choices in another order than the question bank
C15_Witness ==
    \E a \in DOMAIN attempts :
        /\ quiz.shuffleChoices
        /\ attempts[a].resumeCount >= 2
        /\ \E i \in DOMAIN attempts[a].selectedQuestions :
            attempts[a].selectedQuestions[i] \notin
                SnapshotsOf(attempts[a].selectedQuestions[i].question, FALSE,
                            attempts[a].selectedQuestions[i].marks)

\* C16: anti-cheat findings never block grading: a submitQuiz call by the
\* owner of an in_progress attempt inside duration + grace is graded and its
\* results, counts and totals are stored whatever reasons it raises; the
\* only calls that store nothing are those the storage aborts (a write
\* conflict with a concurrent writer, an attempt without questions whose
\* percentage has no value, or a total above maxScore whose percentage the
\* schema refuses), never one stopped by a flag.
C16_FlagsNeverBlockGrading ==
    [][\A w \in Workers :
        (/\ calls[w].pc = "submit" /\ calls'[w].pc = "idle"
         /\ calls[w].snap[calls[w].aid].status = "in_progress"
         /\ calls[w].snap[calls[w].aid].user = calls[w].user
         /\ (calls[w].t - calls[w].snap[calls[w].aid].startTime) \div 1000
                <= quiz.durationMinutes * 60 + 30) =>
            LET c == calls[w]
                a == c.aid
                at == c.snap[a]
                new == attempts'[a]
                g == Grade(at.selectedQuestions, new.rawAnswers, QIds)
            IN  IF calls'[w].resp.kind = "error"
                THEN \/ at.maxScore = 0 \/ a \in c.wrote \/ c.quizWrote
                     \/ \E answers \in env.answerLists :
                            Grade(at.selectedQuestions, answers, QIds).totalScore
                                > at.maxScore * 6
                ELSE /\ calls'[w].resp.kind = "submitted"
                     /\ new.status # "in_progress"
                     /\ new.autoGradeResult = g.results
                     /\ new.totalScore = Max(0, g.totalScore)
                     /\ new.correctCount = g.correctCount
                     /\ new.wrongCount = g.wrongCount
                     /\ new.partialCount = g.partialCount
                     /\ new.unansweredCount = g.unansweredCount
                     /\ new.isFlagged = (new.flaggedReasons # <<>>)
                     /\ gradings'[a] = gradings[a] + 1
                     /\ quiz'.totalAttempts = quiz.totalAttempts + 1]_vars

\* a submit that raised a high-severity reason and at least one more has
\* been graded: results and a positive total are stored
C16_Witness ==
    \E w \in Workers :
        /\ calls[w].resp.kind = "submitted"
        /\ LET at == attempts[calls[w].resp.attemptId]
           IN  /\ Len(at.flaggedReasons) >= 2
               /\ \E i \in DOMAIN at.flaggedReasons :
                    at.flaggedReasons[i].severity = "high"
               /\ at.autoGradeResult # <<>>
               /\ at.totalScore > 0

\* C17: manual grading acts only on an attempt in needs_manual_review or
\* flagged: a gradeAnswer or finalizeGrading call on an attempt in any other
\* status leaves its scores, grading results and status as they were (the
\* part of the claim a rejected call must satisfy whatever it answers).
C17_ManualGradingOnlyWhenPending ==
    [][\A w \in Workers :
        (/\ calls[w].pc \in {"grade", "finalize"} /\ calls'[w].pc = "idle"
         /\ calls[w].snap[calls[w].aid].status
                \notin {"needs_manual_review", "flagged"}) =>
            LET a == calls[w].aid IN
            /\ attempts'[a].totalScore = attempts[a].totalScore
            /\ attempts'[a].percentage = attempts[a].percentage
            /\ attempts'[a].autoGradeResult = attempts[a].autoGradeResult
            /\ attempts'[a].status = attempts[a].status]_vars

\* C18: when finalizeGrading completes the manual grading of an attempt in
\* needs_manual_review or flagged, the attempt becomes manually_graded and
\* its totalScore is the sum over its questions of the manual score where
\* one was given and of the automatic score elsewhere.
C18_FinalizeGivesManuallyGraded ==
    [][\A w \in Workers :
        (/\ calls[w].pc = "finalize" /\ calls'[w].pc = "idle"
         /\ calls[w].snap[calls[w].aid].status \in {"needs_manual_review", "flagged"}
         /\ calls'[w].resp.kind = "finalized") =>
            LET a == calls[w].aid
                new == attempts'[a]
                auto(q) ==
                    SeqSum([i \in DOMAIN new.autoGradeResult |->
                                IF new.autoGradeResult[i].questionId = q
                                THEN new.autoGradeResult[i].score ELSE 0])
                score(q) == IF manualGrades[a][q] # 0 - 1
                            THEN manualGrades[a][q] * 6 ELSE auto(q)
            IN  /\ new.status = "manually_graded"
                /\ new.totalScore =
                    SeqSum([i \in DOMAIN new.selectedQuestions |->
                                score(new.selectedQuestions[i].question)])]_vars

\* C19: after a submitQuiz call graded an attempt, autoGradeResult holds
\* exactly one entry for every question of selectedQuestions, whatever the
\* question types and whether or not the question was answered.
C19_OneResultPerQuestion ==
    [][\A w \in Workers :
        (/\ calls[w].pc = "submit" /\ calls'[w].pc = "idle"
         /\ calls'[w].resp.kind = "submitted") =>
            LET new == attempts'[calls[w].aid] IN
            /\ Len(new.autoGradeResult) = Len(new.selectedQuestions)
            /\ \A i \in DOMAIN new.selectedQuestions :
                Cardinality({k \in DOMAIN new.autoGradeResult :
                    new.autoGradeResult[k].questionId =
                        new.selectedQuestions[i].question}) = 1]_vars

\* C20: an answered short_answer question is never scored automatically and
\* always raises the manual-review signal: a submitQuiz call that grades an
\* attempt holding an answered short_answer question leaves the attempt in
\* needs_manual_review (or flagged), with no marks counted for that question.
C20_ShortAnswerNeedsManualReview ==
    [][\A w \in Workers :
        (/\ calls[w].pc = "submit" /\ calls'[w].pc = "idle"
         /\ calls'[w].resp.kind = "submitted") =>
            LET new == attempts'[calls[w].aid]
                answered(q) ==
                    \E k \in DOMAIN new.rawAnswers :
                        /\ new.rawAnswers[k].questionId = q
                        /\ new.rawAnswers[k].isArray \/ new.rawAnswers[k].str # ""
                shorts == {i \in DOMAIN new.selectedQuestions :
                            /\ new.selectedQuestions[i].type = "short_answer"
                            /\ answered(new.selectedQuestions[i].question)}
            IN  shorts # {} =>
                    /\ new.status \in {"needs_manual_review", "flagged"}
                    /\ \A i \in shorts, k \in DOMAIN new.autoGradeResult :
                        new.autoGradeResult[k].questionId =
                            new.selectedQuestions[i].question
                        => new.autoGradeResult[k].score = 0]_vars

C22_McqMultiPartialCredit ==
    [][\A w \in Workers :
        (/\ calls[w].pc = "submit" /\ calls'[w].pc = "idle"
         /\ calls'[w].resp.kind = "submitted"
         /\ Len(attempts'[calls[w].aid].selectedQuestions) = 1
         /\ attempts'[calls[w].aid].selectedQuestions[1].type = "mcq_multi"
         /\ attempts'[calls[w].aid].rawAnswers # <<>>) =>
            LET new == attempts'[calls[w].aid]
                sq == new.selectedQuestions[1]
                ans == new.rawAnswers[1]
                qd == Questions[sq.question]
                C == {qd.choices[i].id : i \in {j \in DOMAIN qd.choices :
                                                    qd.choices[j].isCorrect}}
                S == IF ans.isArray THEN {ans.arr[i] : i \in DOMAIN ans.arr} ELSE {}
                raw == ((Cardinality(S \cap C) - Cardinality(S \ C)) * sq.marks * 6)
                            \div Cardinality(C)
                partial == IF raw > 0 THEN raw ELSE 0
            IN  /\ ans.questionId = sq.question
                /\ Len(new.autoGradeResult) = 1
                /\ new.autoGradeResult[1].score >= 0
                /\ IF S = C
                   THEN /\ new.autoGradeResult[1].score = sq.marks * 6
                        /\ new.autoGradeResult[1].isCorrect
                        /\ new.correctCount = 1
                        /\ new.partialCount = 0 /\ new.wrongCount = 0
                   ELSE /\ new.autoGradeResult[1].score = partial
                        /\ ~new.autoGradeResult[1].isCorrect
                        /\ new.autoGradeResult[1].isPartial = (partial > 0)
                        /\ new.correctCount = 0
                        /\ new.partialCount = (IF partial > 0 THEN 1 ELSE 0)
                        /\ new.wrongCount = (IF partial > 0 THEN 0 ELSE 1)]_vars

C24_TabSwitchThreshold ==
    [][\A w \in Workers :
        (/\ calls[w].pc = "submit" /\ calls'[w].pc = "idle"
         /\ calls'[w].resp.kind = "submitted") =>
            LET at == calls[w].snap[calls[w].aid]
                new == attempts'[calls[w].aid]
                appended == {i \in DOMAIN new.flaggedReasons :
                                i > Len(at.flaggedReasons)}
            IN  /\ new.tabSwitches >= at.tabSwitches
                /\ (\E i \in appended :
                        /\ new.flaggedReasons[i].reason = "Excessive tab switches detected"
                        /\ new.flaggedReasons[i].severity = "high")
                    <=> (new.tabSwitches > quiz.antiCheatSettings.maxTabSwitches)]_vars

\* C25: the flaggedReasons log of an attempt is append-only: whatever step
\* is taken (resume, timeout, submit in either controller, autosave, fetch,
\* audit event, manual grading), the log before the step is a prefix of the
\* log after it.
C25_FlaggedReasonsAppendOnly ==
    [][\A a \in DOMAIN attempts :
        /\ Len(attempts'[a].flaggedReasons) >= Len(attempts[a].flaggedReasons)
        /\ \A i \in DOMAIN attempts[a].flaggedReasons :
            attempts'[a].flaggedReasons[i] = attempts[a].flaggedReasons[i]]_vars

\* a manual grade has been saved on an attempt whose log holds a reason
C25_Witness ==
    \E w \in Workers :
        /\ calls[w].resp.kind = "graded"
        /\ attempts[calls[w].resp.attemptId].flaggedReasons # <<>>

\* C26: in every reachable state every attempt has isFlagged true exactly
\* when its flaggedReasons log is non-empty.
C26_FlaggedIffReasons ==
    \A a \in DOMAIN attempts :
        attempts[a].isFlagged <=> (attempts[a].flaggedReasons # <<>>)

\* C27: a startQuiz call that answers "resumed" has incremented the
\* attempt's resumeCount by exactly one, set lastResumeTime to the time of
\* the call, added the request's IP to resumeIPs unless it was already
\* there (no duplicate entry), and left status in_progress; and a start
\* call that finds an eligible, unexpired in_progress attempt is never
\* answered with a rejection, whatever IP it comes from and however many
\* resumes preceded it (it resumes, or loses a write conflict).
C27_ResumeBookkeeping ==
    [][\A w \in Workers :
        (calls[w].pc = "start" /\ calls'[w].pc = "idle") =>
            /\ calls'[w].resp.kind = "resumed" =>
                LET a == calls'[w].resp.attemptId IN
                /\ attempts'[a].resumeCount = attempts[a].resumeCount + 1
                /\ attempts'[a].lastResumeTime = calls[w].t
                /\ attempts'[a].status = "in_progress"
                /\ \E ip \in env.ips :
                    /\ ip \in Range(attempts'[a].resumeIPs)
                    /\ attempts'[a].resumeIPs =
                         IF ip \in Range(attempts[a].resumeIPs)
                         THEN attempts[a].resumeIPs
                         ELSE Append(attempts[a].resumeIPs, ip)
                /\ \A i, j \in DOMAIN attempts'[a].resumeIPs :
                    attempts'[a].resumeIPs[i] = attempts'[a].resumeIPs[j] => i = j
            /\ ( /\ StartEligibility(quiz, enrolled, calls[w].snap,
                                     calls[w].t, calls[w].user) = "ok"
                 /\ \E a \in InProgressOf(calls[w].snap, calls[w].user) :
                      ~ResumeExpired(calls[w].snap[a], quiz, calls[w].t) )
               => calls'[w].resp.kind \in {"resumed", "error"}]_vars

\* a second resume has succeeded on an attempt that was resumed from an IP
\* other than the one it was started from
C27_Witness ==
    \E w \in Workers :
        /\ calls[w].resp.kind = "resumed"
        /\ attempts[calls[w].resp.attemptId].resumeCount = 2
        /\ Len(attempts[calls[w].resp.attemptId].resumeIPs) = 2
        /\ attempts[calls[w].resp.attemptId].status = "in_progress"

\* C28: when a resume finds selectedQuestions empty and questionsServed
\* present, the stored snapshot afterwards lists, in questionsServed order,
\* exactly the served questions that still exist (a deleted one is
\* dropped), and the resume succeeds with the attempt in_progress.
C28_RebuildDropsMissing ==
    [][\A w \in Workers :
        (calls[w].pc = "start" /\ calls'[w].pc = "idle") =>
            \A a \in InProgressOf(calls[w].snap, calls[w].user) :
                ( /\ calls[w].snap[a].selectedQuestions = <<>>
                  /\ calls[w].snap[a].questionsServed # <<>>
                  /\ calls'[w].resp.kind \notin {"error", "previous_attempt_expired"}
                  /\ StartEligibility(quiz, enrolled, calls[w].snap,
                                      calls[w].t, calls[w].user) = "ok" )
                =>
                LET served == [i \in DOMAIN attempts[a].questionsServed |->
                                  attempts[a].questionsServed[i].question]
                    exist == FilterIn(served, QIds \ env.deleted)
                    sel == attempts'[a].selectedQuestions
                IN  /\ calls'[w].resp.kind = "resumed"
                    /\ attempts'[a].status = "in_progress"
                    /\ Len(sel) = Len(exist)
                    /\ \A i \in DOMAIN sel :
                        /\ sel[i].question = exist[i]
                        /\ sel[i].type = Questions[exist[i]].type
                        /\ sel[i].marks = Questions[exist[i]].marks]_vars

\* a resume has rebuilt a snapshot that is shorter than questionsServed
C28_Witness ==
    \E w \in Workers :
        /\ calls[w].resp.kind = "resumed"
        /\ LET at == attempts[calls[w].resp.attemptId] IN
            /\ at.status = "in_progress"
            /\ at.selectedQuestions # <<>>
            /\ Len(at.selectedQuestions) < Len(at.questionsServed)

\* C29: timing is server-authoritative: the timeSpentSeconds a graded
\* submitQuiz call stores is floor((submit time - startTime) / 1000) as the
\* server measures it, whatever timeSpentSeconds the client sent, so two
\* calls that differ only in the client's value store the same attempt.
C29_ServerAuthoritativeTiming ==
    [][\A w \in Workers :
        (/\ calls[w].pc = "submit" /\ calls'[w].pc = "idle"
         /\ calls'[w].resp.kind = "submitted") =>
            LET a == calls'[w].resp.attemptId IN
            attempts'[a].timeSpentSeconds =
                (calls[w].t - attempts[a].startTime) \div 1000]_vars

\* C30: leaving in_progress is irreversible: no step (start, resume,
\* autosave, submit, fetch, audit event, grading) sets the status of an
\* attempt that is not in_progress back to in_progress, and an attempt in
\* timeout never changes status again.
C30_LeavingInProgressIrreversible ==
    [][\A a \in DOMAIN attempts :
        /\ attempts[a].status # "in_progress" =>
              attempts'[a].status # "in_progress"
        /\ attempts[a].status = "timeout" =>
              attempts'[a].status = "timeout"]_vars

\* C31: isExpired reports an attempt expired exactly when its elapsed whole
\* seconds exceed the duration in seconds plus the grace period (so not at
\* elapsed = duration, and not inside the grace period), and the remaining
\* time reported is max(0, duration in seconds - elapsed whole seconds).
C31_IsExpiredWithGrace ==
    LET elapsed == (timeUtil.at - timeUtil.startTime) \div 1000 IN
    /\ timeUtil.op = "isExpired" =>
        (timeUtil.expired <=>
            elapsed > timeUtil.durationSeconds + timeUtil.gracePeriodSeconds)
    /\ timeUtil.op = "getTimeRemaining" =>
        timeUtil.remaining =
            IF timeUtil.durationSeconds - elapsed > 0
            THEN timeUtil.durationSeconds - elapsed ELSE 0

\* C32: no response sent to the student while the attempt is in_progress
\* (start, resume, attempt detail, attempt fetch) carries a choice's
\* isCorrect flag or a question's correct answer: the questions it lists
\* carry their reference and choices of id and text only.
C32_NoCorrectnessInResponses ==
    \A w \in Workers :
        calls[w].resp.status = "in_progress" =>
            \A i \in DOMAIN calls[w].resp.served :
                LET v == calls[w].resp.served[i] IN
                /\ DOMAIN v.question = {"id"}
                /\ \A j \in DOMAIN v.choices : DOMAIN v.choices[j] = {"id"}

\* C33: the attempts of one user for the quiz carry pairwise distinct
\* attemptNumbers drawn from 1..attemptsAllowed (so the user never holds
\* more than attemptsAllowed attempts), whatever status the earlier
\* attempts ended in.
C33_AttemptNumbersDistinct ==
    \A a, b \in DOMAIN attempts :
        /\ attempts[a].attemptNumber \in 1..quiz.attemptsAllowed
        /\ (a # b /\ attempts[a].user = attempts[b].user) =>
              attempts[a].attemptNumber # attempts[b].attemptNumber

\* C34: after every successful submit the four counters add up to the
\* number of questions of the snapshot: correctCount + wrongCount +
\* partialCount + unansweredCount = Len(selectedQuestions), for every mix
\* of question types and every answer list.
C34_CountsCoverSnapshot ==
    [][\A w \in Workers :
        (/\ calls[w].pc = "submit" /\ calls'[w].pc = "idle"
         /\ calls'[w].resp.kind = "submitted") =>
            LET at == attempts'[calls'[w].resp.attemptId] IN
            at.correctCount + at.wrongCount + at.partialCount + at.unansweredCount
                = Len(at.selectedQuestions)]_vars

C36_SubmittedMeansGraded ==
    \A a \in DOMAIN attempts :
        attempts[a].status = "submitted" =>
            /\ gradings[a] = 1
            /\ attempts[a].endTime # 0 - 1
            /\ attempts[a].timeSpentSeconds # 0 - 1

\* C37: in every reachable state the maxScore of an attempt is the sum of
\* the marks of the questions of its selectedQuestions snapshot, at
\* creation and after a resume has rebuilt the snapshot without a question
\* that no longer exists (an attempt stored without snapshot is held to
\* this once a resume has rebuilt it).
C37_MaxScoreIsSnapshotSum ==
    \A a \in DOMAIN attempts :
        LET sel == attempts[a].selectedQuestions
            RECURSIVE sum(_)
            sum(i) == IF i = 0 THEN 0 ELSE sel[i].marks + sum(i - 1)
        IN  (sel # <<>> \/ attempts[a].questionsServed = <<>>) =>
                attempts[a].maxScore = sum(Len(sel))

\* C38: for every graded attempt each autoGradeResult entry scores at most
\* its maxScore and totalScore is at most the attempt's maxScore, so the
\* stored percentage lies between 0 and 100, whatever the answer list
\* (repeated question ids, questions outside the snapshot).
C38_ScoresWithinMax ==
    \A a \in DOMAIN attempts :
        gradings[a] >= 1 =>
            /\ \A i \in DOMAIN attempts[a].autoGradeResult :
                attempts[a].autoGradeResult[i].score
                    <= attempts[a].autoGradeResult[i].maxScore * 6
            /\ attempts[a].totalScore <= attempts[a].maxScore * 6
            /\ attempts[a].percentage.num >= 0
            /\ attempts[a].percentage.num <= 100 * attempts[a].percentage.den

\* C39: an attempt that reaches timeout (on resume, on submit or on fetch)
\* is never graded: after every step an attempt in timeout has an empty
\* autoGradeResult and totalScore 0, and the step that puts an attempt in
\* timeout leaves its rawAnswers and the quiz's totalAttempts and
\* averageScore as they were.
C39_TimeoutNeverGraded ==
    [][\A a \in DOMAIN attempts :
        attempts'[a].status = "timeout" =>
            /\ attempts'[a].autoGradeResult = <<>>
            /\ attempts'[a].totalScore = 0
            /\ attempts[a].status # "timeout" =>
                /\ attempts'[a].rawAnswers = attempts[a].rawAnswers
                /\ quiz'.totalAttempts = quiz.totalAttempts
                /\ quiz'.averageScore = quiz.averageScore]_vars

====
